---- MODULE Spec2Model ----
(***************************************************************************)
(* FixTrax: the AudioEngine (services/AudioEngine.ts).                     *)
(*                                                                         *)
(* Numbers.  Every real-valued quantity of the program (a setting, a node  *)
(* parameter, a time constant) is held as an integer count of thousandths  *)
(* (20 is 20000, 0.02 is 20, 1.6 is 1600).  Audio samples are held as      *)
(* integer counts of ten-thousandths (1.0 is 10000).  The inputs are       *)
(* chosen so that each product or quotient the code forms is exact in      *)
(* these units.                                                            *)
(*                                                                         *)
(* Host nodes.  The Web Audio nodes (BiquadFilterNode, DynamicsCompressor- *)
(* Node, ...) are the host's.  The model keeps what the program sets on    *)
(* them and how it connects them; what the host computes from a graph      *)
(* (the samples an offline render produces) is a choice over a bounded set *)
(* of outcomes.                                                            *)
(***************************************************************************)
EXTENDS Integers, Sequences, FiniteSets, TLC

VARIABLES
    \* ---- realtime engine (AudioEngine fields) ----
    source,        \* this.source: 0 (null) or the index in srcState of the attached source
    srcState,      \* the host's AudioBufferSourceNodes created so far: "playing" | "stopped" | "ended"
    nodes,         \* this.nodes: node name -> the node's type and AudioParams
    connections,   \* the connect() edges of the live graph: <<from, to>>
    monitorMode,   \* this.monitorMode
    monitorCalls,  \* number of setMonitorMode calls so far (capped)
    lastOp,        \* the engine operation that ran last
    stopRaised,    \* whether the host's source.stop() raised inside the last stop()
    \* ---- exportMaster / bufferToWav ----
    epc,           \* position of the export: "idle" | "built" | "rendered" | "header" | "done" | "threw"
    expBuffer,     \* the AudioBuffer passed to exportMaster
    expInput,      \* a copy of expBuffer taken at the call
    expSettings,   \* the settings passed to exportMaster
    expGraph,      \* the offline graph: the ordered stages between source and destination
    limOut,        \* the samples the host's render carries out of the limiter stage
    rendered,      \* renderedBuffer: what bufferToWav receives
    view,          \* the DataView over the output ArrayBuffer: a sequence of bytes
    woffset,       \* bufferToWav's running write offset
    wi,            \* bufferToWav's frame index i
    wch,           \* bufferToWav's channel index
    \* ---- the host pulling one frame through the stereo stage ----
    frameIn,       \* the frame entering the splitter: [L, R], or NoFrame
    frameOut,      \* the frame leaving the merger, with the gains it was formed with
    \* ---- App (App.tsx state) ----
    appSettings,   \* App's settings state (useState settings)
    tracks,        \* App's tracks state: the Track objects, in upload order
    activeTrackId, \* App's activeTrackId state: 0 (null) or a track id
    nextId,        \* the id the next uploaded track gets
    effectDue,     \* tracks or activeTrackId changed since the loading effect last ran
    loads,         \* the loadAudio calls in flight
    decodeFailed,  \* ids of the tracks whose loadAudio call has rejected
    isPlaying,     \* App's isPlaying state
    exporting,     \* App's exporting state
    batchExporting,\* App's batchExporting state
    batch,         \* handleExportAll's loop: what it holds and where it is, or NoBatch
    jobs,          \* the exportMaster calls in progress
    jobCount,      \* number of exportMaster calls made so far
    downloads,     \* the downloads triggered so far
    lastJob,       \* the exportMaster call that settled last, and how
    reviveSettings,\* the settings handleAiRevive closed over when it was last called
    edits,         \* number of panel edits and preset applications so far
    aiCall,        \* the suggestion call of handleAiRevive: none, pending, settled or applied
    appOp,         \* the App handler that ran last
    \* ---- a function of the program applied to one argument ----
    fnArg,         \* the function's name and its argument
    fnResult       \* its result, or NoCall before it is applied

engineVars == <<source, srcState, nodes, connections, monitorMode, monitorCalls, lastOp, stopRaised>>
exportVars == <<epc, expBuffer, expInput, expSettings, expGraph, limOut, rendered, view, woffset, wi, wch>>
frameVars == <<frameIn, frameOut>>
settingsVars == <<appSettings, reviveSettings, edits, aiCall>>
trackVars == <<tracks, activeTrackId, nextId, effectDue, loads, decodeFailed, isPlaying>>
jobVars == <<exporting, batchExporting, batch, jobs, jobCount, downloads, lastJob>>
appVars == <<settingsVars, trackVars, jobVars, appOp>>
fnVars == <<fnArg, fnResult>>
vars == <<source, srcState, nodes, connections, monitorMode, monitorCalls, lastOp, stopRaised,
          epc, expBuffer, expInput, expSettings, expGraph, limOut, rendered, view, woffset, wi, wch,
          frameIn, frameOut, appSettings, reviveSettings, edits, aiCall,
          tracks, activeTrackId, nextId, effectDue, loads, decodeFailed, isPlaying,
          exporting, batchExporting, batch, jobs, jobCount, downloads, lastJob,
          appOp, fnArg, fnResult>>

(***************************************************************************)
(* Bounds of the model.                                                    *)
(***************************************************************************)
MaxSources == 3        \* sources the engine may create in one run
MaxMonitorCalls == 2   \* cap of the setMonitorMode call counter
MaxFrames == 2         \* frames of an exported buffer
MaxTenths == 20        \* longest buffer whose file size is computed, in tenths of a second
MaxEdits == 2          \* panel edits and preset applications in one run
MaxTracks == 2         \* tracks uploaded in one run
MaxJobs == 2           \* exportMaster calls made in one run

\* No frame has been pulled; the track has no aiProfile; no function applied.
NoFrame == [kind |-> "none"]
NoProfile == [none |-> TRUE]
NoCall == [fn |-> "none"]
\* No suggestion call has been made.
NoAiCall == [state |-> "none", kind |-> "none", text |-> "", track |-> 0]
\* No track (tracks.find returned undefined); no batch loop; no job settled.
NoTrack ==
    [id |-> 0, status |-> "none", buffer |-> FALSE, decodable |-> FALSE,
     aiProfile |-> NoProfile]
NoBatch == [phase |-> "none"]
NoJob == [n |-> 0, by |-> "none", track |-> 0, ok |-> TRUE]

(***************************************************************************)
(* Settings (types.ts AudioSettings; App.tsx DEFAULT_SETTINGS and          *)
(* FACTORY_PRESETS), in thousandths.                                       *)
(***************************************************************************)
DEFAULT_SETTINGS ==
    [ hissSuppression |-> 20000, crackleSuppression |-> 15000, clickFiltering |-> 0,
      clickSensitivity |-> 25000, clickIntensity |-> 30000, humRemoval |-> FALSE,
      humFrequency |-> 60000, humQ |-> 10000, transientRecovery |-> 30000,
      spectralSynth |-> 10000, deReverb |-> 0, bassBoost |-> 0, midGain |-> 0,
      airGain |-> 2000, warmth |-> 15000, stereoWidth |-> 105000, monoToggle |-> FALSE,
      masterGain |-> 0, limiterThreshold |-> -500, isAiMode |-> FALSE,
      autoReviveMode |-> FALSE ]

PresetCleanGroove ==
    [DEFAULT_SETTINGS EXCEPT !.hissSuppression = 10000, !.crackleSuppression = 10000,
                             !.transientRecovery = 20000]
PresetVintage78 ==
    [DEFAULT_SETTINGS EXCEPT !.hissSuppression = 75000, !.crackleSuppression = 60000,
                             !.airGain = 8000, !.midGain = 2000]
PresetModernClub ==
    [DEFAULT_SETTINGS EXCEPT !.bassBoost = 4000, !.airGain = 4000,
                             !.transientRecovery = 45000, !.stereoWidth = 125000,
                             !.warmth = 25000]

FACTORY_PRESETS == {DEFAULT_SETTINGS, PresetCleanGroove, PresetVintage78, PresetModernClub}

\* Records the control panel can produce from the defaults.
PanelSettings ==
    { [DEFAULT_SETTINGS EXCEPT !.humRemoval = TRUE, !.humFrequency = 50000,
                               !.monoToggle = TRUE, !.masterGain = 6000],
      [DEFAULT_SETTINGS EXCEPT !.masterGain = -20000, !.deReverb = 40000,
                               !.stereoWidth = 0, !.warmth = 0,
                               !.limiterThreshold = -6000],
      [DEFAULT_SETTINGS EXCEPT !.clickSensitivity = 80000, !.clickIntensity = 90000,
                               !.clickFiltering = 50000] }

\* The settings records updateSettings is called with.
SettingsSet == FACTORY_PRESETS \cup PanelSettings

\* The settings records exportMaster is called with.
ExportSettingsSet == {DEFAULT_SETTINGS, PresetModernClub} \cup PanelSettings

(***************************************************************************)
(* Host primitives.                                                        *)
(***************************************************************************)
\* An AudioParam: its value when set, and the target and time constant of
\* the last setTargetAtTime (tc = 0: no ramp scheduled).
Param(v) == [value |-> v, target |-> v, tc |-> 0]

\* param.setTargetAtTime(target, now, timeConstant)
setTargetAtTime(p, target, timeConstant) == [p EXCEPT !.target = target, !.tc = timeConstant]

\* Math.pow(10, dB / 20) for the master gains of SettingsSet, in thousandths.
Pow10dB20(dB) ==
    CASE dB = -20000 -> 100
      [] dB = 0      -> 1000
      [] dB = 6000   -> 1995

\* ctx.createGain(), createBiquadFilter(), createDynamicsCompressor(),
\* createWaveShaper(), createChannelSplitter(n), createChannelMerger(n),
\* createAnalyser(): the nodes as the host hands them out.
createGain == [kind |-> "gain", gain |-> Param(1000)]
createBiquadFilter ==
    [kind |-> "biquad", type |-> "lowpass", frequency |-> Param(350000),
     Q |-> Param(1000), gain |-> Param(0)]
createDynamicsCompressor ==
    [kind |-> "dynamics", threshold |-> Param(-24000), knee |-> Param(30000),
     ratio |-> Param(12000), attack |-> Param(3), release |-> Param(250)]
createWaveShaper == [kind |-> "shaper", curve |-> [k |-> 0, n_samples |-> 0]]  \* curve null
createChannelSplitter(n) == [kind |-> "splitter", outputs |-> n]
createChannelMerger(n) == [kind |-> "merger", inputs |-> n]
createAnalyser == [kind |-> "analyser"]

(***************************************************************************)
(* AudioEngine.makeWarmthCurve: the table curve[i] = (PI + k) x / (PI +    *)
(* k |x|) is determined by k = amount * 0.25 and the table size.           *)
(***************************************************************************)
makeWarmthCurve(amount) == [k |-> (amount * 25) \div 100, n_samples |-> 44100]

\* Math.abs
Abs(x) == IF x < 0 THEN -x ELSE x

\* Math.PI, in thousandths.
PI == 3142

\* A quotient num / den (den > 0) as the fraction in lowest terms.
RECURSIVE Gcd(_, _)
Gcd(a, b) == IF b = 0 THEN a ELSE Gcd(b, a % b)
Ratio(num, den) ==
    LET g == Gcd(Abs(num), den) IN [num |-> num \div g, den |-> den \div g]

\* The loop variable x = (i * 2) / n_samples - 1 of table index i.
curveInput(curve, i) == Ratio(2 * i - curve.n_samples, curve.n_samples)

\* curve[i] = (PI + k) * x / (PI + k * |x|), with x = X / n_samples:
\* (PI + k) * X / (PI * n_samples + k * |X|).
curveEntry(curve, i) ==
    LET X == 2 * i - curve.n_samples
    IN Ratio((PI + curve.k) * X, PI * curve.n_samples + curve.k * Abs(X))

\* The host's WaveShaperNode spreads a table of N entries evenly over
\* [-1, 1]: entry 0 is the output for the input -1, entry N - 1 the output
\* for +1, and entry j the output for the input 2j / (N - 1) - 1 (between
\* those inputs it interpolates linearly).
hostShaperInput(curve, j) == Ratio(2 * j - (curve.n_samples - 1), curve.n_samples - 1)
hostShaperOutput(curve, j) == curveEntry(curve, j)

\* The warmth amounts a curve is made for, and the table indices.
CurveAmounts == {0, 15000, 100000}
CurveIndices == 0..(makeWarmthCurve(0).n_samples - 1)

\* makeWarmthCurve(amount) at one index i of its loop, and the sample the
\* saturator then returns for the input the host maps onto that index.
CurveEntry ==
    /\ fnArg.fn = "makeWarmthCurve"
    /\ fnResult = NoCall
    /\ LET curve == makeWarmthCurve(fnArg.amount) IN
         fnResult' = [fn |-> "makeWarmthCurve",
                      x |-> curveInput(curve, fnArg.i),
                      entry |-> curveEntry(curve, fnArg.i),
                      hostIn |-> hostShaperInput(curve, fnArg.i),
                      hostOut |-> hostShaperOutput(curve, fnArg.i)]
    /\ UNCHANGED fnArg
    /\ UNCHANGED <<engineVars, exportVars, frameVars, appVars>>

(***************************************************************************)
(* AudioEngine.setupSignalChain: the nodes and their initial parameters.   *)
(***************************************************************************)
setupNodes ==
    [ input |-> [createGain EXCEPT !.gain = Param(700)],
      dryGain |-> [createGain EXCEPT !.gain = Param(0)],
      wetGain |-> [createGain EXCEPT !.gain = Param(1000)],
      hissFilter |-> [createBiquadFilter EXCEPT !.type = "peaking",
                          !.frequency = Param(11500000), !.Q = Param(1600)],
      crackleFilter |-> [createBiquadFilter EXCEPT !.type = "peaking",
                          !.frequency = Param(3200000), !.Q = Param(4000)],
      humNotch |-> [createBiquadFilter EXCEPT !.type = "notch", !.Q = Param(15000)],
      bassFilter |-> [createBiquadFilter EXCEPT !.type = "lowshelf",
                          !.frequency = Param(150000)],
      midFilter |-> [createBiquadFilter EXCEPT !.type = "peaking",
                          !.frequency = Param(1200000)],
      airFilter |-> [createBiquadFilter EXCEPT !.type = "highshelf",
                          !.frequency = Param(12000000)],
      spectralExciter |-> [createBiquadFilter EXCEPT !.type = "peaking",
                          !.frequency = Param(15500000), !.Q = Param(800)],
      saturator |-> [createWaveShaper EXCEPT !.curve = makeWarmthCurve(0)],
      noiseExpander |-> [createDynamicsCompressor EXCEPT !.threshold = Param(-60000),
                          !.ratio = Param(1000), !.attack = Param(50),
                          !.release = Param(200)],
      deReverbGate |-> [createDynamicsCompressor EXCEPT !.threshold = Param(-30000),
                          !.ratio = Param(1000), !.attack = Param(3),
                          !.release = Param(50)],
      dynamics |-> [createDynamicsCompressor EXCEPT !.threshold = Param(-18000),
                          !.ratio = Param(2000)],
      splitter |-> createChannelSplitter(2),
      midGainNode |-> createGain,
      sideGainNode |-> createGain,
      merger |-> createChannelMerger(2),
      limiter |-> [createDynamicsCompressor EXCEPT !.threshold = Param(-500),
                          !.ratio = Param(20000)],
      masterGain |-> createGain,
      analyzer |-> createAnalyser ]

\* (A routing in which the merged wet signal skips the limiter.)
setupConnectionsWetUnlimited ==
    { <<"input", "dryGain">>, <<"dryGain", "masterGain">>,
      <<"input", "noiseExpander">>, <<"noiseExpander", "hissFilter">>,
      <<"hissFilter", "crackleFilter">>, <<"crackleFilter", "humNotch">>,
      <<"humNotch", "bassFilter">>, <<"bassFilter", "midFilter">>,
      <<"midFilter", "airFilter">>, <<"airFilter", "spectralExciter">>,
      <<"spectralExciter", "saturator">>, <<"saturator", "deReverbGate">>,
      <<"deReverbGate", "dynamics">>, <<"dynamics", "wetGain">>,
      <<"wetGain", "splitter">>, <<"splitter", "midGainNode">>,
      <<"splitter", "sideGainNode">>, <<"midGainNode", "merger">>,
      <<"sideGainNode", "merger">>, <<"merger", "masterGain">>,
      <<"limiter", "masterGain">>, <<"masterGain", "analyzer">>,
      <<"analyzer", "destination">> }

\* AudioEngine.setupSignalChain, "Signal Routing": every connect() call.
setupConnections ==
    { <<"input", "dryGain">>, <<"dryGain", "masterGain">>,
      <<"input", "noiseExpander">>, <<"noiseExpander", "hissFilter">>,
      <<"hissFilter", "crackleFilter">>, <<"crackleFilter", "humNotch">>,
      <<"humNotch", "bassFilter">>, <<"bassFilter", "midFilter">>,
      <<"midFilter", "airFilter">>, <<"airFilter", "spectralExciter">>,
      <<"spectralExciter", "saturator">>, <<"saturator", "deReverbGate">>,
      <<"deReverbGate", "dynamics">>, <<"dynamics", "wetGain">>,
      <<"wetGain", "splitter">>, <<"splitter", "midGainNode">>,
      <<"splitter", "sideGainNode">>, <<"midGainNode", "merger">>,
      <<"sideGainNode", "merger">>, <<"merger", "limiter">>,
      <<"limiter", "masterGain">>, <<"masterGain", "analyzer">>,
      <<"analyzer", "destination">> }

(***************************************************************************)
(* AudioEngine.updateSettings: the parameters it retargets, each with the  *)
(* 20 ms time constant, and the shaper curve it replaces.                  *)
(***************************************************************************)
RampTC == 20

\* (An update whose crackle cut is scaled by clickIntensity.)
updateSettingsNodesClickDepth(n, s) ==
    [ n EXCEPT
        !.hissFilter.gain = setTargetAtTime(@, -((s.hissSuppression * 2) \div 10), RampTC),
        !.noiseExpander.ratio = setTargetAtTime(@, 1000 + (s.hissSuppression \div 25), RampTC),
        !.noiseExpander.threshold =
            setTargetAtTime(@, -60000 + (s.hissSuppression \div 5), RampTC),
        !.crackleFilter.gain =
            setTargetAtTime(@, -((s.crackleSuppression \div 1000)
                                 * (s.clickIntensity \div 1000) * 3), RampTC),
        !.humNotch.frequency =
            setTargetAtTime(@, IF s.humRemoval THEN s.humFrequency ELSE 10, RampTC),
        !.bassFilter.gain = setTargetAtTime(@, s.bassBoost, RampTC),
        !.midFilter.gain = setTargetAtTime(@, s.midGain, RampTC),
        !.airFilter.gain = setTargetAtTime(@, s.airGain, RampTC),
        !.spectralExciter.gain =
            setTargetAtTime(@, (s.spectralSynth * 15) \div 100, RampTC),
        !.deReverbGate.ratio = setTargetAtTime(@, 1000 + ((s.deReverb * 2) \div 10), RampTC),
        !.midGainNode.gain =
            setTargetAtTime(@, IF s.monoToggle THEN 500 ELSE 1000, RampTC),
        !.sideGainNode.gain =
            setTargetAtTime(@, IF s.monoToggle THEN 500 ELSE s.stereoWidth \div 100, RampTC),
        !.saturator.curve = makeWarmthCurve(s.warmth),
        !.masterGain.gain = setTargetAtTime(@, Pow10dB20(s.masterGain), RampTC) ]

updateSettingsNodes(n, s) ==
    [ n EXCEPT
        !.hissFilter.gain = setTargetAtTime(@, -((s.hissSuppression * 2) \div 10), RampTC),
        !.noiseExpander.ratio = setTargetAtTime(@, 1000 + (s.hissSuppression \div 25), RampTC),
        !.noiseExpander.threshold =
            setTargetAtTime(@, -60000 + (s.hissSuppression \div 5), RampTC),
        !.crackleFilter.gain =
            setTargetAtTime(@, -((s.crackleSuppression * 25) \div 100), RampTC),
        !.humNotch.frequency =
            setTargetAtTime(@, IF s.humRemoval THEN s.humFrequency ELSE 10, RampTC),
        !.bassFilter.gain = setTargetAtTime(@, s.bassBoost, RampTC),
        !.midFilter.gain = setTargetAtTime(@, s.midGain, RampTC),
        !.airFilter.gain = setTargetAtTime(@, s.airGain, RampTC),
        !.spectralExciter.gain =
            setTargetAtTime(@, (s.spectralSynth * 15) \div 100, RampTC),
        !.deReverbGate.ratio = setTargetAtTime(@, 1000 + ((s.deReverb * 2) \div 10), RampTC),
        !.midGainNode.gain =
            setTargetAtTime(@, IF s.monoToggle THEN 500 ELSE 1000, RampTC),
        !.sideGainNode.gain =
            setTargetAtTime(@, IF s.monoToggle THEN 500 ELSE s.stereoWidth \div 100, RampTC),
        !.saturator.curve = makeWarmthCurve(s.warmth),
        !.masterGain.gain = setTargetAtTime(@, Pow10dB20(s.masterGain), RampTC) ]

(***************************************************************************)
(* AudioEngine.setMonitorMode: the two ramps it schedules.                 *)
(***************************************************************************)
\* (A switch that ramps the dry gain only.)
setMonitorModeDryOnly(n, mode) ==
    IF mode = "dry"
    THEN [n EXCEPT !.dryGain.gain = setTargetAtTime(@, 1000, 20)]
    ELSE [n EXCEPT !.dryGain.gain = setTargetAtTime(@, 0, 20)]

setMonitorModeNodes(n, mode) ==
    IF mode = "dry"
    THEN [n EXCEPT !.dryGain.gain = setTargetAtTime(@, 1000, 20),
                   !.wetGain.gain = setTargetAtTime(@, 0, 20)]
    ELSE [n EXCEPT !.dryGain.gain = setTargetAtTime(@, 0, 20),
                   !.wetGain.gain = setTargetAtTime(@, 1000, 20)]

(***************************************************************************)
(* The host's AudioBufferSourceNode.  A started source plays until it is   *)
(* stopped or its buffer ends.  Whether stop() on a source that has ended  *)
(* by itself raises is the host's choice.                                  *)
(***************************************************************************)
hostStop(st, id) == [st EXCEPT ![id] = IF @ = "playing" THEN "stopped" ELSE @]

hostStopMayRaise(src, st) ==
    IF src # 0 /\ st[src] = "ended" THEN BOOLEAN ELSE {FALSE}

(***************************************************************************)
(* AudioEngine.stop, as a function of the engine's transport state and of  *)
(* whether the host's stop() raises: the try/catch swallows the exception  *)
(* and this.source is cleared either way.                                  *)
(***************************************************************************)
\* (stop without its try/catch: the host's exception escapes.)
stopNoCatch(src, st, raises) ==
    IF src = 0 THEN [source |-> 0, srcState |-> st, threw |-> FALSE, raised |-> FALSE]
    ELSE IF raises THEN [source |-> src, srcState |-> st, threw |-> TRUE, raised |-> TRUE]
    ELSE [source |-> 0, srcState |-> hostStop(st, src), threw |-> FALSE, raised |-> FALSE]

stopCall(src, st, raises) ==
    IF src = 0 THEN [source |-> 0, srcState |-> st, threw |-> FALSE, raised |-> FALSE]
    ELSE [source |-> 0,
          srcState |-> IF raises THEN st ELSE hostStop(st, src),
          threw |-> FALSE, raised |-> raises]

(***************************************************************************)
(* AudioEngine.play: stop(), then a fresh source is created, connected to  *)
(* the input node and started.                                             *)
(***************************************************************************)
\* (play without its stop(): the previous source keeps playing.)
playNoStop(src, st, raises) ==
    [source |-> Len(st) + 1, srcState |-> Append(st, "playing"), threw |-> FALSE,
     raised |-> FALSE]

playCall(src, st, raises) ==
    LET r == stopCall(src, st, raises) IN
    IF r.threw THEN r
    ELSE [source |-> Len(r.srcState) + 1, srcState |-> Append(r.srcState, "playing"),
          threw |-> FALSE, raised |-> r.raised]

\* The graph name of the k-th source the engine created.
sourceNode(k) ==
    CASE k = 1 -> "source1" [] k = 2 -> "source2" [] k = 3 -> "source3" [] OTHER -> "source4"

(***************************************************************************)
(* The realtime engine's operations.                                       *)
(***************************************************************************)
Play(raises) ==
    /\ Len(srcState) < MaxSources
    /\ raises \in hostStopMayRaise(source, srcState)
    /\ LET r == playCall(source, srcState, raises) IN
         /\ source' = r.source
         /\ srcState' = r.srcState
         /\ stopRaised' = r.raised
         /\ lastOp' = IF r.threw THEN "playThrew" ELSE "play"
         /\ connections' = IF r.threw THEN connections
                           ELSE connections \cup {<<sourceNode(r.source), "input">>}
    /\ UNCHANGED <<nodes, monitorMode, monitorCalls>>
    /\ UNCHANGED <<exportVars, frameVars, appVars, fnVars>>

Stop(raises) ==
    /\ raises \in hostStopMayRaise(source, srcState)
    /\ LET r == stopCall(source, srcState, raises) IN
         /\ source' = r.source
         /\ srcState' = r.srcState
         /\ stopRaised' = r.raised
         /\ lastOp' = IF r.threw THEN "stopThrew" ELSE "stop"
    /\ UNCHANGED <<nodes, connections, monitorMode, monitorCalls>>
    /\ UNCHANGED <<exportVars, frameVars, appVars, fnVars>>

\* The host: the attached, playing source reaches the end of its buffer.
SourceEnded ==
    /\ source # 0
    /\ srcState[source] = "playing"
    /\ srcState' = [srcState EXCEPT ![source] = "ended"]
    /\ lastOp' = "ended"
    /\ UNCHANGED <<source, nodes, connections, monitorMode, monitorCalls, stopRaised>>
    /\ UNCHANGED <<exportVars, frameVars, appVars, fnVars>>

\* (An update that rebuilds the stages and drops the source.)
UpdateSettingsRebuild(s) ==
    /\ nodes' = updateSettingsNodes(setupNodes, s)
    /\ source' = 0
    /\ lastOp' = "updateSettings"
    /\ UNCHANGED <<srcState, connections, monitorMode, monitorCalls, stopRaised>>
    /\ UNCHANGED <<exportVars, frameVars, appVars, fnVars>>

UpdateSettings(s) ==
    /\ nodes' = updateSettingsNodes(nodes, s)
    /\ lastOp' = "updateSettings"
    /\ UNCHANGED <<source, srcState, connections, monitorMode, monitorCalls, stopRaised>>
    /\ UNCHANGED <<exportVars, frameVars, appVars, fnVars>>

SetMonitorMode(mode) ==
    /\ monitorMode' = mode
    /\ nodes' = setMonitorModeNodes(nodes, mode)
    /\ monitorCalls' = IF monitorCalls < MaxMonitorCalls THEN monitorCalls + 1 ELSE monitorCalls
    /\ lastOp' = "setMonitorMode"
    /\ UNCHANGED <<source, srcState, connections, stopRaised>>
    /\ UNCHANGED <<exportVars, frameVars, appVars, fnVars>>

(***************************************************************************)
(* The stereo stage of the live graph.  stereoRouting is the connect()     *)
(* calls between splitter, midGainNode, sideGainNode and merger with their *)
(* ports: <<from, output, to, input>>.  The host's part: output k of a     *)
(* ChannelSplitter carries channel k of its input; a GainNode multiplies   *)
(* its input by its gain; connections into one input are summed; channel j *)
(* of a ChannelMerger's output is its input j.  The gains are taken at     *)
(* their targets (the 20 ms ramps have settled).                           *)
(***************************************************************************)
\* (A routing that keeps the two gain nodes on separate merger inputs.)
stereoRoutingSeparate ==
    { <<"splitter", 0, "midGainNode", 0>>, <<"splitter", 1, "sideGainNode", 0>>,
      <<"midGainNode", 0, "merger", 0>>, <<"sideGainNode", 0, "merger", 1>> }

stereoRouting ==
    { <<"splitter", 0, "midGainNode", 0>>, <<"splitter", 1, "sideGainNode", 0>>,
      <<"midGainNode", 0, "merger", 0>>, <<"midGainNode", 0, "merger", 1>>,
      <<"sideGainNode", 0, "merger", 0>>, <<"sideGainNode", 0, "merger", 1>> }

\* 1 when the routing has the connection, 0 otherwise.
feeds(from, output, to, input) ==
    IF <<from, output, to, input>> \in stereoRouting THEN 1 ELSE 0

\* The frame [L, R] entering the splitter, as it leaves the merger.
hostStereoStage(n, L, R) ==
    LET gainIn(g) == feeds("splitter", 0, g, 0) * L + feeds("splitter", 1, g, 0) * R
        gainOut(g) == (gainIn(g) * n[g].gain.target) \div 1000
        mergerIn(j) == feeds("midGainNode", 0, "merger", j) * gainOut("midGainNode")
                       + feeds("sideGainNode", 0, "merger", j) * gainOut("sideGainNode")
    IN [L |-> mergerIn(0), R |-> mergerIn(1)]

\* The settings records the stereo stage is driven with: each width, with
\* and without the mono switch.
StereoWidths == {0, 50000, 100000, 105000, 200000}
StereoSettings ==
    { [DEFAULT_SETTINGS EXCEPT !.stereoWidth = w, !.monoToggle = m] :
        w \in StereoWidths, m \in BOOLEAN }

\* The samples of the frames pulled through the stereo stage.
FrameSamples == {-5000, 0, 2500, 5000}

\* The host pulls one frame through the stereo stage.
StereoFrame(L, R) ==
    /\ frameIn' = [kind |-> "frame", L |-> L, R |-> R]
    /\ LET out == hostStereoStage(nodes, L, R) IN
         frameOut' = [kind |-> "frame", L |-> out.L, R |-> out.R,
                      midGain |-> nodes.midGainNode.gain.target,
                      sideGain |-> nodes.sideGainNode.gain.target]
    /\ UNCHANGED <<engineVars, exportVars, appVars, fnVars>>

(***************************************************************************)
(* AudioEngine.exportMaster: the offline graph.  The nodes are created     *)
(* with the host's defaults and the fields the code assigns; they are      *)
(* connected in one chain from the buffer source to the destination.       *)
(***************************************************************************)
exportGraph(s) ==
    << \* exp
       [createDynamicsCompressor EXCEPT
           !.threshold = Param(-60000 + (s.hissSuppression \div 5)),
           !.ratio = Param(1000 + (s.hissSuppression \div 25))],
       \* hiss
       [createBiquadFilter EXCEPT !.type = "peaking", !.frequency = Param(11500000),
           !.gain = Param(-((s.hissSuppression * 2) \div 10))],
       \* crackle
       [createBiquadFilter EXCEPT !.type = "peaking", !.frequency = Param(3200000),
           !.gain = Param(-((s.crackleSuppression * 25) \div 100))],
       \* bass
       [createBiquadFilter EXCEPT !.type = "lowshelf", !.frequency = Param(150000),
           !.gain = Param(s.bassBoost)],
       \* mid
       [createBiquadFilter EXCEPT !.type = "peaking", !.frequency = Param(1200000),
           !.gain = Param(s.midGain)],
       \* air
       [createBiquadFilter EXCEPT !.type = "highshelf", !.frequency = Param(12000000),
           !.gain = Param(s.airGain)],
       \* spectral
       [createBiquadFilter EXCEPT !.type = "peaking", !.frequency = Param(15500000),
           !.gain = Param((s.spectralSynth * 15) \div 100)],
       \* sat
       [createWaveShaper EXCEPT !.curve = makeWarmthCurve(s.warmth)],
       \* lim
       [createDynamicsCompressor EXCEPT !.threshold = Param(-500)],
       \* master
       [createGain EXCEPT !.gain = Param((Pow10dB20(s.masterGain) * 8) \div 10)] >>

(***************************************************************************)
(* A stage as the settings determine it: the node's kind and the targets   *)
(* of its parameters (filter type/frequency/Q/gain, dynamics threshold/    *)
(* ratio, shaper curve, gain).                                             *)
(***************************************************************************)
stageOf(node) ==
    CASE node.kind = "biquad" ->
            [kind |-> "biquad", type |-> node.type, frequency |-> node.frequency.target,
             Q |-> node.Q.target, gain |-> node.gain.target]
      [] node.kind = "dynamics" ->
            [kind |-> "dynamics", threshold |-> node.threshold.target,
             ratio |-> node.ratio.target]
      [] node.kind = "shaper" -> [kind |-> "shaper", curve |-> node.curve]
      [] node.kind = "gain" -> [kind |-> "gain", gain |-> node.gain.target]

\* The splitter, the mid and side gains and the merger, as one stereo stage.
stereoStageOf(n) ==
    [kind |-> "stereo", midGain |-> n.midGainNode.gain.target,
     sideGain |-> n.sideGainNode.gain.target]

\* The live wet path from the input gain to the master gain, in connection
\* order (the monitor gain wetGain carries no setting and is left out).
liveStages(n) ==
    << stageOf(n.noiseExpander), stageOf(n.hissFilter), stageOf(n.crackleFilter),
       stageOf(n.humNotch), stageOf(n.bassFilter), stageOf(n.midFilter),
       stageOf(n.airFilter), stageOf(n.spectralExciter), stageOf(n.saturator),
       stageOf(n.deReverbGate), stageOf(n.dynamics), stereoStageOf(n),
       stageOf(n.limiter), stageOf(n.masterGain) >>

\* The stages of an offline graph, in connection order.
graphStages(g) == [i \in 1..Len(g) |-> stageOf(g[i])]

(***************************************************************************)
(* Buffers.  An AudioBuffer is its channel count, length (frames), sample  *)
(* rate and planar data: data[channel][frame], in ten-thousandths.         *)
(***************************************************************************)
ChannelCounts == {1, 2}
SampleRates == {44100, 48000}

\* The exported buffers: a tone of amplitude 0.5 alternating in sign.
InputBuffer(ch, len, rate) ==
    [numberOfChannels |-> ch, length |-> len, sampleRate |-> rate,
     data |-> [c \in 1..ch |-> [i \in 1..len |->
                  IF (c + i) % 2 = 0 THEN 5000 ELSE -5000]]]

InputBuffers ==
    { InputBuffer(ch, len, rate) : ch \in ChannelCounts, len \in 1..MaxFrames,
                                   rate \in SampleRates }

\* What the host's render may carry out of the limiter stage, per sample:
\* silence, a half-scale sample and full scale of either sign.
LimiterOut == {-10000, 0, 6250, 10000}

(***************************************************************************)
(* AudioEngine.bufferToWav.                                                *)
(***************************************************************************)
\* string.charCodeAt(i) for the four chunk tags
charCodes(string) ==
    CASE string = "RIFF" -> <<82, 73, 70, 70>>
      [] string = "WAVE" -> <<87, 65, 86, 69>>
      [] string = "fmt " -> <<102, 109, 116, 32>>
      [] string = "data" -> <<100, 97, 116, 97>>

\* The bytes DataView.setUint16 / setUint32 store, little-endian.
U16LE(v) == LET w == v % 65536 IN <<w % 256, w \div 256>>
\* (A setUint32 value of this model is below 2^31, so it is its own residue
\* modulo 2^32.)
U32LE(v) ==
    <<v % 256, (v \div 256) % 256, (v \div 65536) % 256, (v \div 16777216) % 256>>

\* Truncation towards zero of num / den (den > 0).
TruncDiv(num, den) == IF num >= 0 THEN num \div den ELSE -((-num) \div den)

\* The bytes DataView.setInt16 stores for the number num / den: truncated
\* towards zero, then reduced modulo 2^16, little-endian.
I16LE(num, den) == U16LE(TruncDiv(num, den))

\* Writes bytes bs into view v at a byte offset (the range is checked by the caller).
setBytes(v, offset, bs) ==
    [j \in 1..Len(v) |->
        IF j - 1 >= offset /\ j - 1 < offset + Len(bs) THEN bs[j - offset] ELSE v[j]]

\* DataView's range check: a write of n bytes at offset raises RangeError
\* unless it lies inside the buffer.
inRange(v, offset, n) == offset >= 0 /\ offset + n <= Len(v)

\* (A data size that counts samples, not bytes.)
wavDataSizeNoBytes(buffer) == buffer.length * buffer.numberOfChannels

\* dataSize = buffer.length * blockAlign, blockAlign = numChannels * (16 / 8)
wavDataSize(buffer) == buffer.length * (buffer.numberOfChannels * (16 \div 8))

\* (A file size that leaves out the header.)
wavFileSizeNoHeader(buffer) == wavDataSize(buffer)

\* fileSize = 44 + dataSize
wavFileSize(buffer) == 44 + wavDataSize(buffer)

\* (A header whose byte rate leaves out the bytes per sample.)
wavHeaderByteRateNoAlign(buffer, v) ==
    LET numChannels == buffer.numberOfChannels
        blockAlign == numChannels * 2
        w1 == setBytes(v, 0, charCodes("RIFF"))
        w2 == setBytes(w1, 4, U32LE(wavFileSize(buffer) - 8))
        w3 == setBytes(w2, 8, charCodes("WAVE"))
        w4 == setBytes(w3, 12, charCodes("fmt "))
        w5 == setBytes(w4, 16, U32LE(16))
        w6 == setBytes(w5, 20, U16LE(1))
        w7 == setBytes(w6, 22, U16LE(numChannels))
        w8 == setBytes(w7, 24, U32LE(buffer.sampleRate))
        w9 == setBytes(w8, 28, U32LE(buffer.sampleRate * numChannels))
        w10 == setBytes(w9, 32, U16LE(blockAlign))
        w11 == setBytes(w10, 34, U16LE(16))
        w12 == setBytes(w11, 36, charCodes("data"))
    IN setBytes(w12, 40, U32LE(wavDataSize(buffer)))

\* The header writes, in order, on the zero-filled view v.
wavHeader(buffer, v) ==
    LET numChannels == buffer.numberOfChannels
        sampleRate == buffer.sampleRate
        bitDepth == 16
        bytesPerSample == bitDepth \div 8
        blockAlign == numChannels * bytesPerSample
        byteRate == sampleRate * blockAlign
        dataSize == wavDataSize(buffer)
        fileSize == wavFileSize(buffer)
        w1 == setBytes(v, 0, charCodes("RIFF"))
        w2 == setBytes(w1, 4, U32LE(fileSize - 8))
        w3 == setBytes(w2, 8, charCodes("WAVE"))
        w4 == setBytes(w3, 12, charCodes("fmt "))
        w5 == setBytes(w4, 16, U32LE(16))
        w6 == setBytes(w5, 20, U16LE(1))
        w7 == setBytes(w6, 22, U16LE(numChannels))
        w8 == setBytes(w7, 24, U32LE(sampleRate))
        w9 == setBytes(w8, 28, U32LE(byteRate))
        w10 == setBytes(w9, 32, U16LE(blockAlign))
        w11 == setBytes(w10, 34, U16LE(bitDepth))
        w12 == setBytes(w11, 36, charCodes("data"))
    IN setBytes(w12, 40, U32LE(dataSize))

\* (A conversion that does not clamp.)
clampSampleNone(x) == x

\* Math.max(-1, Math.min(1, x))
clampSample(x) == IF x > 10000 THEN 10000 ELSE IF x < -10000 THEN -10000 ELSE x

\* The bytes stored for one sample x: clamped, scaled by 0x8000 when
\* negative and by 0x7FFF otherwise, stored by setInt16.
sampleBytes(x) ==
    LET sample == clampSample(x)
    IN IF sample < 0 THEN I16LE(sample * 32768, 10000)
                     ELSE I16LE(sample * 32767, 10000)

(***************************************************************************)
(* bufferToWav's conversion of one sample, applied to samples of a finer   *)
(* resolution: a sample is x / one, and the result is the signed 16-bit    *)
(* number setInt16 stores (getInt16 reads back).                           *)
(***************************************************************************)
\* Full scale (1.0) of these samples: units of 1/65535, the finest for which
\* sample * 0x8000 stays inside TLC's integers.
FineOne == 65535

\* The samples the conversion is applied to: all of [-1, 1].
FineSamples == (-FineOne)..FineOne

\* ToInt16: the value modulo 2^16, read as a signed number.
Int16(v) == LET w == v % 65536 IN IF w >= 32768 THEN w - 65536 ELSE w

\* (A conversion that scales both signs by 0x8000.)
sampleIntSymmetric(x, one) ==
    LET sample == IF x > one THEN one ELSE IF x < -one THEN -one ELSE x
    IN Int16(TruncDiv(sample * 32768, one))

sampleInt(x, one) ==
    LET sample == IF x > one THEN one ELSE IF x < -one THEN -one ELSE x
        intSample == IF sample < 0 THEN TruncDiv(sample * 32768, one)
                                   ELSE TruncDiv(sample * 32767, one)
    IN Int16(intSample)

ConvertSample ==
    /\ fnArg.fn = "bufferToWav.sample"
    /\ fnResult = NoCall
    /\ fnResult' = [fn |-> "bufferToWav.sample", intSample |-> sampleInt(fnArg.x, FineOne)]
    /\ UNCHANGED fnArg
    /\ UNCHANGED <<engineVars, exportVars, frameVars, appVars>>

(***************************************************************************)
(* The export's steps.                                                     *)
(***************************************************************************)
\* (An offline context that always renders two channels.)
offlineShapeStereo(buffer) ==
    [numberOfChannels |-> 2, length |-> buffer.length, sampleRate |-> buffer.sampleRate]

\* new OfflineAudioContext(buffer.numberOfChannels, buffer.length,
\* buffer.sampleRate): the shape of the context, which is the shape of the
\* buffer startRendering resolves to.
offlineShape(buffer) ==
    [numberOfChannels |-> buffer.numberOfChannels, length |-> buffer.length,
     sampleRate |-> buffer.sampleRate]

\* exportMaster up to its await: the offline context takes the buffer's
\* channel count, length and sample rate; the graph is built and started.
ExportMaster(buffer, settings) ==
    /\ epc = "idle"
    /\ expBuffer' = buffer
    /\ expInput' = buffer
    /\ expSettings' = settings
    /\ expGraph' = exportGraph(settings)
    /\ epc' = "built"
    /\ UNCHANGED <<limOut, rendered, view, woffset, wi, wch>>
    /\ UNCHANGED <<engineVars, frameVars, appVars, fnVars>>

\* offlineCtx.startRendering() resolves: the host has run the graph.  The
\* last stage is the master gain, which multiplies what leaves the limiter.
RenderComplete ==
    /\ epc = "built"
    /\ LET ctx == offlineShape(expBuffer) IN
         /\ \E out \in [1..ctx.numberOfChannels -> [1..ctx.length -> LimiterOut]] :
               limOut' = out
         /\ rendered' =
               [numberOfChannels |-> ctx.numberOfChannels,
                length |-> ctx.length,
                sampleRate |-> ctx.sampleRate,
                data |-> [c \in 1..ctx.numberOfChannels |->
                            [i \in 1..ctx.length |->
                               (limOut'[c][i] * expGraph[Len(expGraph)].gain.value)
                                  \div 1000]]]
    /\ epc' = "rendered"
    /\ UNCHANGED <<expBuffer, expInput, expSettings, expGraph, view, woffset, wi, wch>>
    /\ UNCHANGED <<engineVars, frameVars, appVars, fnVars>>

\* bufferToWav(renderedBuffer): the ArrayBuffer is allocated (zero-filled),
\* the header is written, and the sample loop starts at offset 44.
WavHeader ==
    /\ epc = "rendered"
    /\ view' = wavHeader(rendered, [j \in 1..wavFileSize(rendered) |-> 0])
    /\ woffset' = 44
    /\ wi' = 0
    /\ wch' = 0
    /\ epc' = "writing"
    /\ UNCHANGED <<expBuffer, expInput, expSettings, expGraph, limOut, rendered>>
    /\ UNCHANGED <<engineVars, frameVars, appVars, fnVars>>

\* One turn of the inner loop: sample (frame wi, channel wch) is stored at
\* the running offset, which advances by 2; a write outside the buffer
\* raises RangeError.
WavWriteSample ==
    /\ epc = "writing"
    /\ wi < rendered.length
    /\ IF inRange(view, woffset, 2)
       THEN /\ view' = setBytes(view, woffset, sampleBytes(rendered.data[wch + 1][wi + 1]))
            /\ woffset' = woffset + 2
            /\ IF wch + 1 < rendered.numberOfChannels
               THEN wch' = wch + 1 /\ wi' = wi
               ELSE wch' = 0 /\ wi' = wi + 1
            /\ epc' = "writing"
       ELSE /\ epc' = "threw"
            /\ UNCHANGED <<view, woffset, wi, wch>>
    /\ UNCHANGED <<expBuffer, expInput, expSettings, expGraph, limOut, rendered>>
    /\ UNCHANGED <<engineVars, frameVars, appVars, fnVars>>

\* The outer loop ends; the Blob over the ArrayBuffer is returned.
WavDone ==
    /\ epc = "writing"
    /\ wi >= rendered.length
    /\ epc' = "done"
    /\ UNCHANGED <<expBuffer, expInput, expSettings, expGraph, limOut, rendered,
                   view, woffset, wi, wch>>
    /\ UNCHANGED <<engineVars, frameVars, appVars, fnVars>>

(***************************************************************************)
(* The size of the file an export produces, for buffers of real length:    *)
(* the shape of the rendered buffer and bufferToWav's dataSize and          *)
(* fileSize (neither depends on the samples or on the settings).           *)
(***************************************************************************)
\* The shape of a buffer of a number of tenths of a second.
BufferShape(ch, tenths, rate) ==
    [numberOfChannels |-> ch, length |-> (rate * tenths) \div 10, sampleRate |-> rate]

BufferShapes ==
    { BufferShape(ch, tenths, rate) : ch \in ChannelCounts, tenths \in 1..MaxTenths,
                                      rate \in SampleRates }

ExportSize ==
    /\ fnArg.fn = "exportMaster.size"
    /\ fnResult = NoCall
    /\ LET renderedBuffer == offlineShape(fnArg.buffer) IN
         fnResult' = [fn |-> "exportMaster.size",
                      dataSize |-> wavDataSize(renderedBuffer),
                      fileSize |-> wavFileSize(renderedBuffer)]
    /\ UNCHANGED fnArg
    /\ UNCHANGED <<engineVars, exportVars, frameVars, appVars>>

(***************************************************************************)
(* The suggestion service (geminiService.analyzeTrackWithAI): what it      *)
(* resolves with.  The response is JSON.parse of the model's text, whose   *)
(* schema types every parameter as NUMBER with no bounds; on any error the *)
(* fixed fallback profile.  Values in thousandths.                         *)
(***************************************************************************)
AiFallback ==
    [ hissSuppression |-> 20000, crackleSuppression |-> 15000,
      transientRecovery |-> 30000, bassBoost |-> 3000, airGain |-> 4000,
      deReverb |-> 0, stereoWidth |-> 110000, warmth |-> 15000,
      aiInsight |-> "Applied a clean modern-conversion profile as fallback." ]

\* A response with every required field of the schema.
AiResponse ==
    [ hissSuppression |-> 40000, crackleSuppression |-> 30000,
      clickSensitivity |-> 50000, transientRecovery |-> 40000, bassBoost |-> 4000,
      midGain |-> 1000, airGain |-> 6000, warmth |-> 20000, deReverb |-> 20000,
      stereoWidth |-> 130000, aiInsight |-> "Light surface noise." ]

\* A response of the same schema with numbers the model is free to produce.
AiResponseWide ==
    [ AiResponse EXCEPT !.hissSuppression = 150000, !.bassBoost = 20000,
                        !.airGain = -15000, !.stereoWidth = 300000,
                        !.aiInsight = "Heavy wear." ]

AiResults == {AiFallback, AiResponse, AiResponseWide}

\* What the host's request ends with: the request is rejected (network
\* error), answered with a non-OK status, or answered with a body whose
\* text is empty, is not JSON, or is the JSON text of a response.
ResponseTexts == {"", "<html>Bad Gateway", "{response}", "{wide}"}
CallOutcomes ==
    {[kind |-> "rejected", text |-> ""], [kind |-> "notOk", text |-> ""]}
    \cup {[kind |-> "ok", text |-> t] : t \in ResponseTexts}

\* generateContent: it throws when the request is rejected or the status
\* is not OK, and otherwise returns the text of the body.
generateContent(outcome) ==
    IF outcome.kind \in {"rejected", "notOk"}
    THEN [threw |-> TRUE, text |-> ""]
    ELSE [threw |-> FALSE, text |-> outcome.text]

\* JSON.parse(text.trim()).
JSONparse(text) ==
    CASE text = "{response}" -> [threw |-> FALSE, value |-> AiResponse]
      [] text = "{wide}" -> [threw |-> FALSE, value |-> AiResponseWide]
      [] OTHER -> [threw |-> TRUE, value |-> NoProfile]

\* (An analysis that parses the text without the empty-text check and takes
\* an empty text for an empty object.)
analyzeTrackWithAINoTextCheck(outcome) ==
    LET response == generateContent(outcome) IN
    IF response.threw THEN AiFallback
    ELSE IF response.text = "" THEN [aiInsight |-> ""]
    ELSE IF JSONparse(response.text).threw THEN AiFallback
    ELSE JSONparse(response.text).value

\* analyzeTrackWithAI: the try block awaits the call, throws on an empty
\* text and parses it; the catch block returns the fallback profile.
analyzeTrackWithAI(outcome) ==
    LET response == generateContent(outcome) IN
    IF response.threw THEN AiFallback
    ELSE IF response.text = "" THEN AiFallback
    ELSE IF JSONparse(response.text).threw THEN AiFallback
    ELSE JSONparse(response.text).value

(***************************************************************************)
(* App (App.tsx): the track list, the handlers that change the settings,   *)
(* the track-loading effect, playback and exports.                         *)
(***************************************************************************)
\* (An object spread that lays the partial object over the defaults.)
spreadOntoDefaults(a, b) ==
    [f \in DOMAIN DEFAULT_SETTINGS \cup DOMAIN b |->
        IF f \in DOMAIN b THEN b[f] ELSE DEFAULT_SETTINGS[f]]

\* The object spread { ...a, ...b }.
spread(a, b) ==
    [f \in DOMAIN a \cup DOMAIN b |-> IF f \in DOMAIN b THEN b[f] ELSE a[f]]

\* The settings effect: engine.updateSettings(settings) and then
\* engine.setMonitorMode(monitorMode), after every change of either.
settingsEffect(n, s, mode) == setMonitorModeNodes(updateSettingsNodes(n, s), mode)

\* The call counter after k more setMonitorMode calls.
countCalls(c, k) == IF c + k < MaxMonitorCalls THEN c + k ELSE MaxMonitorCalls

\* tracks.find(t => t.id === id), or NoTrack (undefined).
findTrack(ts, id) ==
    IF \E i \in DOMAIN ts : ts[i].id = id
    THEN ts[CHOOSE i \in DOMAIN ts : ts[i].id = id]
    ELSE NoTrack

\* const activeTrack = tracks.find(t => t.id === activeTrackId).
activeTrack == findTrack(tracks, activeTrackId)

\* prev.map(t => t.id === id ? { ...t, ...fields } : t).
mapTrack(ts, id, fields) ==
    [i \in DOMAIN ts |->
        IF ts[i].id = id
        THEN [f \in DOMAIN ts[i] |-> IF f \in DOMAIN fields THEN fields[f] ELSE ts[i][f]]
        ELSE ts[i]]

\* The FileLists an upload can carry: for each file, whether the host can
\* decode its audio.
FileLists == UNION {[1..n -> BOOLEAN] : n \in 1..MaxTracks}

\* The Track objects handleUpload builds, with fresh ids.
newTracks(files, firstId) ==
    [i \in DOMAIN files |->
        [id |-> firstId + i - 1, status |-> "idle", buffer |-> FALSE,
         decodable |-> files[i], aiProfile |-> NoProfile]]

\* handleUpload: the new tracks are appended; when no track is active the
\* first new track becomes the active one.
HandleUpload(files) ==
    /\ nextId + Len(files) - 1 <= MaxTracks
    /\ tracks' = tracks \o newTracks(files, nextId)
    /\ nextId' = nextId + Len(files)
    /\ activeTrackId' = IF activeTrackId = 0 THEN nextId ELSE activeTrackId
    /\ effectDue' = TRUE
    /\ appOp' = "handleUpload"
    /\ UNCHANGED <<loads, decodeFailed, isPlaying>>
    /\ UNCHANGED <<settingsVars, jobVars>>
    /\ UNCHANGED <<engineVars, exportVars, frameVars, fnVars>>

\* The values the control panel's sliders and switches are moved to.
PanelKeys == {"humRemoval", "masterGain"}
PanelValue(s, key) ==
    CASE key = "humRemoval" -> ~s.humRemoval
      [] key = "masterGain" -> 6000

\* ControlPanel.update(key, val), and the settings effect it triggers.
PanelUpdate(key) ==
    LET newSettings == [appSettings EXCEPT ![key] = PanelValue(appSettings, key),
                                           !.isAiMode = FALSE] IN
    /\ edits < MaxEdits
    /\ edits' = edits + 1
    /\ appSettings' = newSettings
    /\ nodes' = settingsEffect(nodes, newSettings, monitorMode)
    /\ monitorCalls' = countCalls(monitorCalls, 1)
    /\ lastOp' = "setMonitorMode"
    /\ appOp' = "update"
    /\ UNCHANGED <<reviveSettings, aiCall>>
    /\ UNCHANGED <<trackVars, jobVars>>
    /\ UNCHANGED <<source, srcState, connections, monitorMode, stopRaised>>
    /\ UNCHANGED <<exportVars, frameVars, fnVars>>

\* handleApplyPreset: the preset replaces the settings, the engine is
\* updated at once and again by the settings effect.
HandleApplyPreset(preset) ==
    LET newSettings == [preset EXCEPT !.isAiMode = FALSE] IN
    /\ edits < MaxEdits
    /\ edits' = edits + 1
    /\ appSettings' = newSettings
    /\ monitorMode' = "wet"
    /\ nodes' = settingsEffect(settingsEffect(nodes, newSettings, "wet"), newSettings, "wet")
    /\ monitorCalls' = countCalls(monitorCalls, 2)
    /\ lastOp' = "setMonitorMode"
    /\ appOp' = "handleApplyPreset"
    /\ UNCHANGED <<reviveSettings, aiCall>>
    /\ UNCHANGED <<trackVars, jobVars>>
    /\ UNCHANGED <<source, srcState, connections, stopRaised>>
    /\ UNCHANGED <<exportVars, frameVars, fnVars>>

\* handleAiRevive up to its await: the active track is marked 'analyzing';
\* the handler holds the settings and the active track of the render it
\* was created in.  (The button is disabled while the track is analyzing;
\* one call is in flight at a time.)
HandleAiRevive ==
    /\ activeTrack # NoTrack
    /\ activeTrack.status # "analyzing"
    /\ aiCall.state \in {"none", "applied"}
    /\ tracks' = mapTrack(tracks, activeTrack.id, [status |-> "analyzing"])
    /\ effectDue' = TRUE
    /\ reviveSettings' = appSettings
    /\ aiCall' = [NoAiCall EXCEPT !.state = "pending", !.track = activeTrack.id]
    /\ appOp' = "handleAiRevive"
    /\ UNCHANGED <<appSettings, edits>>
    /\ UNCHANGED <<activeTrackId, nextId, loads, decodeFailed, isPlaying>>
    /\ UNCHANGED jobVars
    /\ UNCHANGED <<engineVars, exportVars, frameVars, fnVars>>

\* The host's request ends.
CallSettles(outcome) ==
    /\ aiCall.state = "pending"
    /\ aiCall' = [aiCall EXCEPT !.state = "settled", !.kind = outcome.kind,
                                !.text = outcome.text]
    /\ UNCHANGED <<appSettings, reviveSettings, edits, appOp>>
    /\ UNCHANGED <<trackVars, jobVars>>
    /\ UNCHANGED <<engineVars, exportVars, frameVars, fnVars>>

\* analyzeTrackWithAI resolves: the result is spread over the settings the
\* handler holds, applied to the engine, and stored as the profile of the
\* track the handler was called for.
AiReviveResolved ==
    LET aiParams == analyzeTrackWithAI(aiCall)
        newSettings == [spread(reviveSettings, aiParams) EXCEPT !.isAiMode = TRUE] IN
    /\ aiCall.state = "settled"
    /\ aiCall' = [aiCall EXCEPT !.state = "applied"]
    /\ appSettings' = newSettings
    /\ nodes' = settingsEffect(updateSettingsNodes(nodes, newSettings), newSettings, "wet")
    /\ monitorMode' = "wet"
    /\ monitorCalls' = countCalls(monitorCalls, 1)
    /\ lastOp' = "setMonitorMode"
    /\ tracks' = mapTrack(tracks, aiCall.track, [status |-> "idle", aiProfile |-> aiParams])
    /\ effectDue' = TRUE
    /\ appOp' = "handleAiRevive.resolved"
    /\ UNCHANGED <<reviveSettings, edits>>
    /\ UNCHANGED <<activeTrackId, nextId, loads, decodeFailed, isPlaying>>
    /\ UNCHANGED jobVars
    /\ UNCHANGED <<source, srcState, connections, stopRaised>>
    /\ UNCHANGED <<exportVars, frameVars, fnVars>>

\* The loadAudio call started for a track by handleSelectTrack or by the
\* track-loading effect; retry: an earlier call for the track has rejected.
loadOf(track, by) ==
    [track |-> track.id, by |-> by, cancelled |-> FALSE, decodable |-> track.decodable,
     retry |-> track.id \in decodeFailed]

\* handleSelectTrack up to its await: the track becomes the active one; if
\* it has no buffer it is marked 'processing' and its audio is loaded,
\* otherwise playback is stopped at once.
HandleSelectTrack(id, raises) ==
    LET track == findTrack(tracks, id) IN
    /\ track # NoTrack
    /\ activeTrackId' = id
    /\ effectDue' = TRUE
    /\ appOp' = "handleSelectTrack"
    /\ IF ~track.buffer
       THEN /\ raises = FALSE
            /\ tracks' = mapTrack(tracks, id, [status |-> "processing"])
            /\ loads' = loads \cup {loadOf(track, "select")}
            /\ UNCHANGED <<isPlaying, source, srcState, stopRaised, lastOp>>
       ELSE /\ raises \in hostStopMayRaise(source, srcState)
            /\ LET r == stopCall(source, srcState, raises) IN
                 /\ source' = r.source
                 /\ srcState' = r.srcState
                 /\ stopRaised' = r.raised
            /\ lastOp' = "stop"
            /\ isPlaying' = FALSE
            /\ UNCHANGED <<tracks, loads>>
    /\ UNCHANGED <<nextId, decodeFailed>>
    /\ UNCHANGED <<settingsVars, jobVars>>
    /\ UNCHANGED <<nodes, connections, monitorMode, monitorCalls>>
    /\ UNCHANGED <<exportVars, frameVars, fnVars>>

\* The track-loading effect, run after a render in which tracks or
\* activeTrackId changed: the cleanup of its previous run cancels that
\* run's load; then, if the active track has no buffer, the track is
\* marked 'processing' (a new tracks array) and a load is started.
LoadEffect ==
    LET cleaned == {IF l.by = "effect" THEN [l EXCEPT !.cancelled = TRUE] ELSE l : l \in loads}
        track == activeTrack IN
    /\ effectDue
    /\ appOp' = "loadEffect"
    /\ IF activeTrackId = 0 \/ track = NoTrack \/ track.buffer
       THEN /\ loads' = cleaned
            /\ effectDue' = FALSE
            /\ UNCHANGED tracks
       ELSE /\ tracks' = mapTrack(tracks, activeTrackId, [status |-> "processing"])
            /\ loads' = cleaned \cup {loadOf(track, "effect")}
            /\ effectDue' = TRUE
    /\ UNCHANGED <<activeTrackId, nextId, decodeFailed, isPlaying>>
    /\ UNCHANGED <<settingsVars, jobVars>>
    /\ UNCHANGED <<engineVars, exportVars, frameVars, fnVars>>

\* loadAudio settles.  It resolves with the buffer of a decodable file:
\* handleSelectTrack stores it, marks the track 'idle' and stops playback;
\* the effect stores it unless that run was cancelled.  It rejects for a
\* file the host cannot decode: neither caller catches the rejection.
DecodeSettles(load, raises) ==
    /\ load \in loads
    /\ loads' = loads \ {load}
    /\ IF ~load.decodable
       THEN /\ raises = FALSE
            /\ decodeFailed' = decodeFailed \cup {load.track}
            /\ appOp' = "loadAudio.rejected"
            /\ UNCHANGED <<tracks, effectDue, isPlaying, source, srcState, stopRaised, lastOp>>
       ELSE /\ UNCHANGED decodeFailed
            /\ appOp' = "loadAudio.resolved"
            /\ IF load.by = "select"
               THEN /\ raises \in hostStopMayRaise(source, srcState)
                    /\ tracks' = mapTrack(tracks, load.track,
                                          [buffer |-> TRUE, status |-> "idle"])
                    /\ effectDue' = TRUE
                    /\ LET r == stopCall(source, srcState, raises) IN
                         /\ source' = r.source
                         /\ srcState' = r.srcState
                         /\ stopRaised' = r.raised
                    /\ lastOp' = "stop"
                    /\ isPlaying' = FALSE
               ELSE /\ raises = FALSE
                    /\ IF load.cancelled
                       THEN UNCHANGED <<tracks, effectDue>>
                       ELSE /\ tracks' = mapTrack(tracks, load.track,
                                                  [buffer |-> TRUE, status |-> "idle"])
                            /\ effectDue' = TRUE
                    /\ UNCHANGED <<isPlaying, source, srcState, stopRaised, lastOp>>
    /\ UNCHANGED <<activeTrackId, nextId>>
    /\ UNCHANGED <<settingsVars, jobVars>>
    /\ UNCHANGED <<nodes, connections, monitorMode, monitorCalls>>
    /\ UNCHANGED <<exportVars, frameVars, fnVars>>

\* TrackList onRemove: prev.filter(t => t.id !== id).
RemoveTrack(id) ==
    /\ findTrack(tracks, id) # NoTrack
    /\ tracks' = SelectSeq(tracks, LAMBDA t : t.id # id)
    /\ effectDue' = TRUE
    /\ appOp' = "onRemove"
    /\ UNCHANGED <<activeTrackId, nextId, loads, decodeFailed, isPlaying>>
    /\ UNCHANGED <<settingsVars, jobVars>>
    /\ UNCHANGED <<engineVars, exportVars, frameVars, fnVars>>

\* togglePlayback, as a function of the state it is called in: it returns
\* at once unless the active track has a buffer; otherwise it stops the
\* engine when isPlaying and plays the active track's buffer when not.
togglePlayback(raises) ==
    IF ~activeTrack.buffer
    THEN [ran |-> "ignored", source |-> source, srcState |-> srcState,
          raised |-> stopRaised, isPlaying |-> isPlaying]
    ELSE IF isPlaying
    THEN LET r == stopCall(source, srcState, raises) IN
         [ran |-> "stop", source |-> r.source, srcState |-> r.srcState,
          raised |-> r.raised, isPlaying |-> FALSE]
    ELSE LET r == playCall(source, srcState, raises) IN
         [ran |-> "play", source |-> r.source, srcState |-> r.srcState,
          raised |-> r.raised, isPlaying |-> TRUE]

\* The play/pause control is pressed.
TogglePlayback(raises) ==
    LET r == togglePlayback(raises) IN
    /\ raises \in hostStopMayRaise(source, srcState)
    /\ r.ran = "play" => Len(srcState) < MaxSources
    /\ source' = r.source
    /\ srcState' = r.srcState
    /\ stopRaised' = r.raised
    /\ isPlaying' = r.isPlaying
    /\ lastOp' = IF r.ran = "ignored" THEN lastOp ELSE r.ran
    /\ connections' = IF r.ran = "play"
                      THEN connections \cup {<<sourceNode(r.source), "input">>}
                      ELSE connections
    /\ appOp' = IF r.ran = "ignored" THEN "togglePlayback.ignored" ELSE "togglePlayback"
    /\ UNCHANGED <<tracks, activeTrackId, nextId, effectDue, loads, decodeFailed>>
    /\ UNCHANGED <<settingsVars, jobVars>>
    /\ UNCHANGED <<nodes, monitorMode, monitorCalls>>
    /\ UNCHANGED <<exportVars, frameVars, fnVars>>

\* The exportMaster call a handler makes for a track.
jobOf(by, track, settings) ==
    [n |-> jobCount + 1, by |-> by, track |-> track.id, settings |-> settings]

\* handleExport up to exportMaster's await: the active track's buffer is
\* exported with the current settings.  (The button is disabled while
\* exporting is set.)
HandleExport ==
    /\ activeTrack.buffer
    /\ ~exporting
    /\ jobCount < MaxJobs
    /\ exporting' = TRUE
    /\ jobs' = jobs \cup {jobOf("single", activeTrack, appSettings)}
    /\ jobCount' = jobCount + 1
    /\ appOp' = "handleExport"
    /\ UNCHANGED <<batchExporting, batch, downloads, lastJob>>
    /\ UNCHANGED <<settingsVars, trackVars>>
    /\ UNCHANGED <<engineVars, exportVars, frameVars, fnVars>>

\* The settings handleExportAll exports a track with: the track's
\* aiProfile, if it has one, spread over the settings.
effectiveSettings(settings, track) ==
    IF track.aiProfile # NoProfile THEN spread(settings, track.aiProfile) ELSE settings

\* handleExportAll's loop arriving at track i of the tracks it holds: a
\* track without a buffer is loaded first, a track with one is exported.
batchAt(b, i) ==
    IF b.tracks[i].buffer
    THEN [b EXCEPT !.phase = "rendering", !.i = i]
    ELSE [b EXCEPT !.phase = "loading", !.i = i]
batchJobs(b) ==
    IF b.phase = "rendering"
    THEN {jobOf("batch", b.tracks[b.i], effectiveSettings(b.settings, b.tracks[b.i]))}
    ELSE {}

\* handleExportAll up to its first await.  (The button is disabled while
\* batchExporting is set.)
HandleExportAll ==
    LET b == batchAt([phase |-> "start", i |-> 1, tracks |-> tracks,
                      settings |-> appSettings], 1) IN
    /\ tracks # <<>>
    /\ ~batchExporting
    /\ jobCount < MaxJobs
    /\ batchExporting' = TRUE
    /\ batch' = b
    /\ jobs' = jobs \cup batchJobs(b)
    /\ jobCount' = jobCount + Cardinality(batchJobs(b))
    /\ appOp' = "handleExportAll"
    /\ UNCHANGED <<exporting, downloads, lastJob>>
    /\ UNCHANGED <<settingsVars, trackVars>>
    /\ UNCHANGED <<engineVars, exportVars, frameVars, fnVars>>

\* The loadAudio call of the batch loop settles: the buffer is stored on
\* the track object the loop holds and the track is exported; a rejection
\* leaves the loop through its finally block.
BatchLoaded ==
    /\ batch.phase = "loading"
    /\ IF batch.tracks[batch.i].decodable
       THEN LET b == [batch EXCEPT !.phase = "rendering",
                                   !.tracks[batch.i].buffer = TRUE] IN
            /\ jobCount < MaxJobs
            /\ batch' = b
            /\ jobs' = jobs \cup batchJobs(b)
            /\ jobCount' = jobCount + 1
            /\ appOp' = "handleExportAll.loaded"
            /\ UNCHANGED batchExporting
       ELSE /\ batch' = NoBatch
            /\ batchExporting' = FALSE
            /\ appOp' = "handleExportAll.failed"
            /\ UNCHANGED <<jobs, jobCount>>
    /\ UNCHANGED <<exporting, downloads, lastJob>>
    /\ UNCHANGED <<settingsVars, trackVars>>
    /\ UNCHANGED <<engineVars, exportVars, frameVars, fnVars>>

\* The downloads once an exportMaster call has settled.
downloadsAfterNoThrow(job, ok) ==
    downloads \cup {[n |-> job.n, by |-> job.by, track |-> job.track]}

\* The statements after the await of exportMaster (createObjectURL,
\* a.click()) run when the call resolves and are skipped when it rejects.
downloadsAfter(job, ok) ==
    IF ok THEN downloads \cup {[n |-> job.n, by |-> job.by, track |-> job.track]}
    ELSE downloads

\* An exportMaster call settles: it resolves with the blob, which the
\* handler downloads, or it rejects because rendering or encoding failed.
\* handleExport clears exporting either way; handleExportAll waits 800 ms
\* after a download and leaves its loop on a rejection.
JobSettles(job, ok) ==
    /\ job \in jobs
    /\ jobs' = jobs \ {job}
    /\ lastJob' = [n |-> job.n, by |-> job.by, track |-> job.track, ok |-> ok]
    /\ downloads' = downloadsAfter(job, ok)
    /\ IF job.by = "single"
       THEN /\ exporting' = FALSE
            /\ appOp' = IF ok THEN "handleExport.downloaded" ELSE "handleExport.failed"
            /\ UNCHANGED <<batchExporting, batch>>
       ELSE /\ batch' = IF ok THEN [batch EXCEPT !.phase = "waiting"] ELSE NoBatch
            /\ batchExporting' = ok
            /\ appOp' = IF ok THEN "handleExportAll.downloaded" ELSE "handleExportAll.failed"
            /\ UNCHANGED exporting
    /\ UNCHANGED jobCount
    /\ UNCHANGED <<settingsVars, trackVars>>
    /\ UNCHANGED <<engineVars, exportVars, frameVars, fnVars>>

\* The 800 ms wait of the batch loop ends: the loop goes on to the next
\* track, or ends and clears batchExporting.
BatchTimer ==
    /\ batch.phase = "waiting"
    /\ IF batch.i = Len(batch.tracks)
       THEN /\ batch' = NoBatch
            /\ batchExporting' = FALSE
            /\ appOp' = "handleExportAll.done"
            /\ UNCHANGED <<jobs, jobCount>>
       ELSE LET b == batchAt(batch, batch.i + 1) IN
            /\ jobCount < MaxJobs
            /\ batch' = b
            /\ jobs' = jobs \cup batchJobs(b)
            /\ jobCount' = jobCount + Cardinality(batchJobs(b))
            /\ appOp' = "handleExportAll"
            /\ UNCHANGED batchExporting
    /\ UNCHANGED <<exporting, downloads, lastJob>>
    /\ UNCHANGED <<settingsVars, trackVars>>
    /\ UNCHANGED <<engineVars, exportVars, frameVars, fnVars>>

(***************************************************************************)
(* The state after construction: the constructor runs setupSignalChain;    *)
(* no source, monitor mode 'wet'; no export has been called.               *)
(***************************************************************************)
NoBuffer == [numberOfChannels |-> 0, length |-> 0, sampleRate |-> 0, data |-> <<>>]

\* The engine, the App and the export after construction.
InitProgram ==
    /\ source = 0
    /\ srcState = <<>>
    /\ nodes = setupNodes
    /\ connections = setupConnections
    /\ monitorMode = "wet"
    /\ monitorCalls = 0
    /\ lastOp = "init"
    /\ stopRaised = FALSE
    /\ epc = "idle"
    /\ expBuffer = NoBuffer
    /\ expInput = NoBuffer
    /\ expSettings = DEFAULT_SETTINGS
    /\ expGraph = <<>>
    /\ limOut = <<>>
    /\ rendered = NoBuffer
    /\ view = <<>>
    /\ woffset = 0
    /\ wi = 0
    /\ wch = 0
    /\ frameIn = NoFrame
    /\ frameOut = NoFrame
    /\ appSettings = DEFAULT_SETTINGS
    /\ tracks = <<>>
    /\ activeTrackId = 0
    /\ nextId = 1
    /\ effectDue = FALSE
    /\ loads = {}
    /\ decodeFailed = {}
    /\ isPlaying = FALSE
    /\ exporting = FALSE
    /\ batchExporting = FALSE
    /\ batch = NoBatch
    /\ jobs = {}
    /\ jobCount = 0
    /\ downloads = {}
    /\ lastJob = NoJob
    /\ reviveSettings = NoProfile
    /\ edits = 0
    /\ aiCall = NoAiCall
    /\ appOp = "init"

Init ==
    /\ InitProgram
    /\ fnArg = NoCall
    /\ fnResult = NoCall

Next ==
    \/ \E raises \in BOOLEAN : Play(raises)
    \/ \E raises \in BOOLEAN : Stop(raises)
    \/ SourceEnded
    \/ \E s \in SettingsSet : UpdateSettings(s)
    \/ \E mode \in {"dry", "wet"} : SetMonitorMode(mode)

Spec == Init /\ [][Next]_vars

NextExport ==
    \/ \E buffer \in InputBuffers, settings \in ExportSettingsSet :
          ExportMaster(buffer, settings)
    \/ RenderComplete
    \/ WavHeader
    \/ WavWriteSample
    \/ WavDone

SpecExport == Init /\ [][NextExport]_vars

\* The sample conversion applied to each sample of FineSamples.
InitCodec ==
    /\ InitProgram
    /\ fnArg \in {[fn |-> "bufferToWav.sample", x |-> x] : x \in FineSamples}
    /\ fnResult = NoCall

NextCodec == ConvertSample

SpecCodec == InitCodec /\ [][NextCodec]_vars

\* The export's file size computed for each buffer shape of BufferShapes.
InitSize ==
    /\ InitProgram
    /\ fnArg \in {[fn |-> "exportMaster.size", buffer |-> b] : b \in BufferShapes}
    /\ fnResult = NoCall

NextSize == ExportSize

SpecSize == InitSize /\ [][NextSize]_vars

\* makeWarmthCurve at each amount of CurveAmounts and each table index.
InitCurve ==
    /\ InitProgram
    /\ fnArg \in {[fn |-> "makeWarmthCurve", amount |-> a, i |-> i] :
                    a \in CurveAmounts, i \in CurveIndices}
    /\ fnResult = NoCall

NextCurve == CurveEntry

SpecCurve == InitCurve /\ [][NextCurve]_vars

\* The live engine's stereo stage: settings updates and frames.
NextStereo ==
    \/ \E s \in StereoSettings : UpdateSettings(s)
    \/ \E L \in FrameSamples, R \in FrameSamples : StereoFrame(L, R)

SpecStereo == Init /\ [][NextStereo]_vars

\* The App's settings: upload, panel edits, presets and AI revive.
NextApp ==
    \/ tracks = <<>> /\ HandleUpload(<<TRUE>>)
    \/ \E key \in PanelKeys : PanelUpdate(key)
    \/ \E preset \in FACTORY_PRESETS : HandleApplyPreset(preset)
    \/ HandleAiRevive
    \/ \E outcome \in CallOutcomes : CallSettles(outcome)
    \/ AiReviveResolved

SpecApp == Init /\ [][NextApp]_vars

\* AI parameters applied: panel edits, AI revive and the batch export up
\* to its exportMaster call.
NextBatch ==
    \/ tracks = <<>> /\ HandleUpload(<<TRUE>>)
    \/ \E key \in PanelKeys : PanelUpdate(key)
    \/ HandleAiRevive
    \/ \E outcome \in CallOutcomes : CallSettles(outcome)
    \/ AiReviveResolved
    \/ HandleExportAll
    \/ BatchLoaded

SpecBatch == Init /\ [][NextBatch]_vars

\* AI revive alone, with panel edits: the continuation of handleAiRevive
\* runs once its call has settled; nothing makes the host's request end.
NextRevive ==
    \/ tracks = <<>> /\ HandleUpload(<<TRUE>>)
    \/ \E key \in PanelKeys : PanelUpdate(key)
    \/ HandleAiRevive
    \/ \E outcome \in CallOutcomes : CallSettles(outcome)
    \/ AiReviveResolved

SpecRevive == Init /\ [][NextRevive]_vars /\ WF_vars(AiReviveResolved)

\* updateSettings and exportMaster's graph for two settings records that
\* differ in the click/pop fields only.
ClickFields == {"clickSensitivity", "clickIntensity", "clickFiltering"}
ClickValues == {0, 50000, 100000}
ClickVariants ==
    { [clickSensitivity |-> a, clickIntensity |-> b, clickFiltering |-> c] :
        a \in ClickValues, b \in ClickValues, c \in ClickValues }

InitInert ==
    /\ InitProgram
    /\ fnArg \in {[fn |-> "clickFields", settings |-> s, other |-> spread(s, v)] :
                    s \in SettingsSet, v \in ClickVariants}
    /\ fnResult = NoCall

ClickApply ==
    /\ fnArg.fn = "clickFields"
    /\ fnResult = NoCall
    /\ fnResult' = [fn |-> "clickFields",
                    nodes |-> updateSettingsNodes(nodes, fnArg.settings),
                    otherNodes |-> updateSettingsNodes(nodes, fnArg.other),
                    graph |-> exportGraph(fnArg.settings),
                    otherGraph |-> exportGraph(fnArg.other)]
    /\ UNCHANGED fnArg
    /\ UNCHANGED <<engineVars, exportVars, frameVars, appVars>>

NextInert == ClickApply

SpecInert == InitInert /\ [][NextInert]_vars

\* The track list: uploads, selections, removals, the loading effect,
\* the host's decoding and playback.
NextTracks ==
    \/ \E files \in FileLists : HandleUpload(files)
    \/ \E id \in 1..MaxTracks, raises \in BOOLEAN : HandleSelectTrack(id, raises)
    \/ LoadEffect
    \/ \E load \in loads, raises \in BOOLEAN : DecodeSettles(load, raises)
    \/ \E id \in 1..MaxTracks : RemoveTrack(id)
    \/ \E raises \in BOOLEAN : TogglePlayback(raises)
    \/ SourceEnded

SpecTracks == Init /\ [][NextTracks]_vars

\* The exports: tracks are uploaded, the active one is selected and its
\* audio decoded, and the single and the batch export run.
NextExports ==
    \/ \E files \in FileLists : tracks = <<>> /\ HandleUpload(files)
    \/ HandleSelectTrack(activeTrackId, FALSE)
    \/ \E load \in loads : DecodeSettles(load, FALSE)
    \/ HandleExport
    \/ HandleExportAll
    \/ BatchLoaded
    \/ \E job \in jobs, ok \in BOOLEAN : JobSettles(job, ok)
    \/ BatchTimer

SpecExports == Init /\ [][NextExports]_vars

\* Loading after an upload, with no other user action: the effect runs
\* after every render that changed tracks or activeTrackId, and the host
\* settles the loadAudio calls that are in flight.
NextLoad ==
    \/ \E files \in FileLists : HandleUpload(files)
    \/ LoadEffect
    \/ \E load \in loads : DecodeSettles(load, FALSE)

SpecLoad ==
    /\ Init /\ [][NextLoad]_vars
    /\ WF_vars(LoadEffect)
    /\ WF_vars(\E load \in loads : DecodeSettles(load, FALSE))

\* AI revive while the user moves between tracks: uploads, selections,
\* removals and the analysis.
NextSwitch ==
    \/ \E files \in FileLists : tracks = <<>> /\ HandleUpload(files)
    \/ \E id \in 1..MaxTracks : HandleSelectTrack(id, FALSE)
    \/ \E id \in 1..MaxTracks : RemoveTrack(id)
    \/ HandleAiRevive
    \/ \E outcome \in CallOutcomes : CallSettles(outcome)
    \/ AiReviveResolved

SpecSwitch == Init /\ [][NextSwitch]_vars /\ WF_vars(AiReviveResolved)

(***************************************************************************)
(* Properties.                                                             *)
(***************************************************************************)
\* The documented ceiling of the export's peak, 0.98.
Ceiling == 9800

Exported == epc \in {"rendered", "writing", "done"}

SamplePositions(b) == (1..b.numberOfChannels) \X (1..b.length)

\* C1: peak safety: the buffer exportMaster hands to the WAV encoder has no
\* sample, on any channel, whose absolute value exceeds the ceiling 0.98.
C1_PeakSafety ==
    Exported => \A p \in SamplePositions(rendered) : Abs(rendered.data[p[1]][p[2]]) <= Ceiling

\* C2: already-safe material is not attenuated: when the render at the
\* master gain the settings ask for, 10^(masterGain/20), peaks at or below
\* the ceiling, the samples handed to the encoder are exactly that render
\* (both sides are compared multiplied by 1000).
C2_SafeMaterialUnscaled ==
    Exported =>
      LET g == Pow10dB20(expSettings.masterGain) IN
      (\A p \in SamplePositions(rendered) : Abs(limOut[p[1]][p[2]] * g) <= Ceiling * 1000)
        => \A p \in SamplePositions(rendered) :
              rendered.data[p[1]][p[2]] * 1000 = limOut[p[1]][p[2]] * g

\* C3: the offline graph built by exportMaster for settings s has the same
\* ordered stages, with the same settings-derived parameters, as the live
\* wet path after setupSignalChain and updateSettings(s).
C3_OfflineGraphIsLiveGraph ==
    epc # "idle" =>
      graphStages(expGraph) = liveStages(updateSettingsNodes(setupNodes, expSettings))

\* The sources that are started and neither stopped nor ended.
Started == {k \in 1..Len(srcState) : srcState[k] = "playing"}

\* C4: at most one source is started at any time, and a started source is
\* the one attached to the engine.
C4_AtMostOneSource ==
    /\ Cardinality(Started) <= 1
    /\ \A k \in Started : source = k

\* C4's case: play was called while a source was playing; the previous
\* source is stopped and a fresh one plays.
C4_Witness ==
    /\ lastOp = "play"
    /\ Len(srcState) >= 2
    /\ srcState[Len(srcState) - 1] = "stopped"
    /\ srcState[Len(srcState)] = "playing"
    /\ source = Len(srcState)

\* C5: stop never fails and is idempotent: from every reachable state, and
\* whatever the host's stop() does, stop returns normally with no source
\* attached and none playing, and a second stop changes nothing.
C5_StopIdempotent ==
    /\ lastOp # "stopThrew"
    /\ lastOp = "stop" => (source = 0 /\ Started = {})
    /\ \A r1 \in hostStopMayRaise(source, srcState) :
         LET a == stopCall(source, srcState, r1) IN
         /\ ~a.threw
         /\ a.source = 0
         /\ \A k \in 1..Len(a.srcState) : a.srcState[k] # "playing"
         /\ \A r2 \in hostStopMayRaise(a.source, a.srcState) :
              LET b == stopCall(a.source, a.srcState, r2) IN
              ~b.threw /\ b.source = a.source /\ b.srcState = a.srcState

\* C5's case: stop was called after the source had ended by itself and the
\* host's stop() raised.
C5_Witness ==
    /\ lastOp = "stop"
    /\ stopRaised
    /\ source = 0
    /\ Len(srcState) >= 1
    /\ srcState[Len(srcState)] = "ended"

\* C6: updateSettings changes only per-stage parameters: the attached
\* source, the sources' transport state, the monitor mode, the monitor
\* gains, the graph's connections and every node's kind stay as they were.
C6_UpdateSettingsFrame ==
    [][lastOp' = "updateSettings" =>
          /\ source' = source
          /\ srcState' = srcState
          /\ monitorMode' = monitorMode
          /\ connections' = connections
          /\ nodes'.dryGain = nodes.dryGain
          /\ nodes'.wetGain = nodes.wetGain
          /\ \A name \in DOMAIN nodes : nodes'[name].kind = nodes[name].kind]_vars

\* C6's case: updateSettings ran while a source was playing in dry mode and
\* retargeted a stage parameter.
C6_Witness ==
    /\ lastOp = "updateSettings"
    /\ source # 0
    /\ srcState[source] = "playing"
    /\ monitorMode = "dry"
    /\ nodes.bassFilter.gain.target = 4000

\* C7: the monitor ramps: dry/wet targets are 1/0 in mode 'dry' and 0/1 in
\* mode 'wet', both ramps have the same time constant, which is 20 ms once
\* setMonitorMode has been called.
C7_MonitorTargets ==
    LET d == nodes.dryGain.gain
        w == nodes.wetGain.gain
    IN /\ monitorMode = "dry" => (d.target = 1000 /\ w.target = 0)
       /\ monitorMode = "wet" => (d.target = 0 /\ w.target = 1000)
       /\ d.tc = w.tc
       /\ monitorCalls > 0 => d.tc = 20

\* C7's case: the mode was switched to 'dry' and back more than once.
C7_Witness ==
    /\ lastOp = "setMonitorMode"
    /\ monitorCalls >= 2
    /\ monitorMode = "dry"
    /\ nodes.dryGain.gain.target = 1000

\* The nodes one connection away from a node of S.
Successors(conn, S) == {e[2] : e \in {x \in conn : x[1] \in S}}

\* The nodes reachable from S along connections without entering avoid.
RECURSIVE ReachFrom(_, _, _)
ReachFrom(conn, S, avoid) ==
    LET N == (S \cup Successors(conn, S)) \ avoid
    IN IF N = S THEN S ELSE ReachFrom(conn, N, avoid)

\* Some path leads from one node to another without entering avoid.
Reaches(conn, from, to, avoid) == to \in ReachFrom(conn, {from} \ avoid, avoid)

\* C8 as stated: every path from the input gain to the output passes
\* through the limiter and then through the master gain.
C8_EveryPathLimited ==
    /\ Reaches(connections, "input", "destination", {})
    /\ ~Reaches(connections, "input", "destination", {"limiter"})
    /\ ~Reaches(connections, "limiter", "destination", {"masterGain"})

\* C8 amended: every path from the input gain to the output that does not
\* go through the dry gain passes through the limiter and then the master
\* gain; the dry gain feeds the master gain directly, so the dry path
\* bypasses the limiter, and dry and wet are summed at the master gain;
\* every path to the output passes through the master gain.
C8_WetPathLimited ==
    /\ Reaches(connections, "input", "destination", {"dryGain"})
    /\ ~Reaches(connections, "input", "destination", {"limiter", "dryGain"})
    /\ ~Reaches(connections, "limiter", "destination", {"masterGain"})
    /\ ~Reaches(connections, "input", "destination", {"masterGain"})
    /\ {e \in connections : e[1] = "dryGain"} = {<<"dryGain", "masterGain">>}
    /\ Reaches(connections, "input", "destination", {"limiter"})

\* C8's case: a source plays into the input gain while the monitor is
\* switched to the dry path.
C8_Witness ==
    /\ source # 0
    /\ srcState[source] = "playing"
    /\ monitorMode = "dry"
    /\ nodes.dryGain.gain.target = 1000
    /\ Reaches(connections, sourceNode(source), "destination", {"limiter"})

\* The unsigned little-endian numbers stored in a view at a byte offset.
RdU16(v, off) == v[off + 1] + 256 * v[off + 2]
RdU32(v, off) == v[off + 1] + 256 * v[off + 2] + 65536 * v[off + 3] + 16777216 * v[off + 4]

\* C9: the byte stream has length 44 + frameCount * channelCount * 2, and
\* the write loop never writes outside it: no write raises, each write lies
\* between offset 44 and the end, and the loop ends exactly at the end.
C9_WavLength ==
    LET size == 44 + rendered.length * rendered.numberOfChannels * 2 IN
    /\ epc # "threw"
    /\ epc \in {"writing", "done"} => Len(view) = size
    /\ (epc = "writing" /\ wi < rendered.length) => (woffset >= 44 /\ woffset + 2 <= size)
    /\ epc = "done" => woffset = size

\* C9's case: a stereo buffer of two frames was encoded.
C9_Witness ==
    /\ epc = "done"
    /\ rendered.numberOfChannels = 2
    /\ rendered.length = 2
    /\ Len(view) = 52

\* C10: the header is canonical PCM and the samples are interleaved:
\* format tag 1, the buffer's channel count and sample rate, 16 bits per
\* sample, block align = channels * 2, byte rate = sampleRate * blockAlign,
\* RIFF size = length - 8, data size = length - 44, and sample (i, c) is
\* stored little-endian at offset 44 + (i * channels + c) * 2.
C10_WavHeader ==
    epc \in {"writing", "done"} =>
      LET ch == rendered.numberOfChannels
          rate == rendered.sampleRate
      IN /\ SubSeq(view, 1, 4) = <<82, 73, 70, 70>>
         /\ RdU32(view, 4) = Len(view) - 8
         /\ SubSeq(view, 9, 16) = <<87, 65, 86, 69, 102, 109, 116, 32>>
         /\ RdU32(view, 16) = 16
         /\ RdU16(view, 20) = 1
         /\ RdU16(view, 22) = ch
         /\ RdU32(view, 24) = rate
         /\ RdU32(view, 28) = rate * (ch * 2)
         /\ RdU16(view, 32) = ch * 2
         /\ RdU16(view, 34) = 16
         /\ SubSeq(view, 37, 40) = <<100, 97, 116, 97>>
         /\ RdU32(view, 40) = Len(view) - 44
         /\ epc = "done" =>
              \A i \in 0..(rendered.length - 1), c \in 0..(ch - 1) :
                 LET off == 44 + (i * ch + c) * 2 IN
                 SubSeq(view, off + 1, off + 2) = sampleBytes(rendered.data[c + 1][i + 1])

\* C10's case: a stereo buffer at 44.1 kHz whose two channels differ in the
\* same frame was encoded.
C10_Witness ==
    /\ epc = "done"
    /\ rendered.numberOfChannels = 2
    /\ rendered.length = 2
    /\ rendered.sampleRate = 44100
    /\ rendered.data[1][1] # rendered.data[2][1]
    /\ rendered.data[1][2] # rendered.data[2][1]

\* The signed 16-bit number stored little-endian in a view at a byte offset.
RdI16(v, off) == LET u == RdU16(v, off) IN IF u >= 32768 THEN u - 65536 ELSE u

\* The samples bufferToWav has stored so far, by write order: the k-th
\* write (k from 0) stored frame k \div channels, channel k % channels.
Written == 0..(((woffset - 44) \div 2) - 1)

\* C11: float-to-int16 conversion: whatever the sample (outside [-1, 1]
\* included), the stored integer s lies in -32768..32767; a sample at or
\* above +1 is stored as 32767 and one at or below -1 as -32768; a sample x
\* in between is stored as x * 32767 (x >= 0) or x * 32768 (x < 0) with the
\* fraction dropped (samples in ten-thousandths).
C11_ClampThenScale ==
    epc \in {"writing", "done"} =>
      \A k \in Written :
         LET ch == rendered.numberOfChannels
             x == rendered.data[(k % ch) + 1][(k \div ch) + 1]
             s == RdI16(view, 44 + 2 * k)
         IN /\ s >= -32768 /\ s <= 32767
            /\ x >= 10000 => s = 32767
            /\ x <= -10000 => s = -32768
            /\ (x >= 0 /\ x < 10000) =>
                  (s >= 0 /\ s * 10000 <= x * 32767 /\ x * 32767 < (s + 1) * 10000)
            /\ (x < 0 /\ x > -10000) =>
                  (s <= 0 /\ x * 32768 <= s * 10000 /\ (s - 1) * 10000 < x * 32768)

\* C11's case: an encoded buffer held a sample above +1, one below -1 and
\* one in between whose scaled value has a fraction (0.9975 * 32767).
C11_Witness ==
    /\ epc = "done"
    /\ \E p \in SamplePositions(rendered) : rendered.data[p[1]][p[2]] = 9975
    /\ \E p \in SamplePositions(rendered) : rendered.data[p[1]][p[2]] = 15960
    /\ \E p \in SamplePositions(rendered) : rendered.data[p[1]][p[2]] = -15960
    /\ \E k \in Written : RdI16(view, 44 + 2 * k) = 32767
    /\ \E k \in Written : RdI16(view, 44 + 2 * k) = -32768

\* The conversion has been applied to a sample.
Converted == fnResult.fn = "bufferToWav.sample"

\* The scale that decodes a stored integer: 32768 when negative, else 32767.
decodeScale(s) == IF s < 0 THEN 32768 ELSE 32767

\* C12 as stated: for every sample x in [-1, 1], the stored integer s
\* decoded by its matching scale D is within 1/32768 of x:
\* |x - s/D| <= 1/32768, i.e. |x*D - s| * 32768 <= D (x = fnArg.x / FineOne).
C12_RoundTrip ==
    Converted =>
      LET x == fnArg.x
          s == fnResult.intSample
          D == decodeScale(s)
      IN /\ (x >= 0 => s >= 0) /\ (x < 0 => s <= 0)
         /\ Abs(x * D - s * FineOne) < 2 * FineOne
         /\ Abs(x * D - s * FineOne) * 32768 <= FineOne * D

\* C12 amended: the conversion drops the fraction, so the decoded sample
\* differs from x by less than one step of its scale: less than 1/32768
\* for a negative sample and less than 1/32767 (which exceeds 1/32768) for
\* the others; the decoded sample never exceeds x in magnitude.
C12_RoundTripOneStep ==
    Converted =>
      LET x == fnArg.x
          s == fnResult.intSample
          D == decodeScale(s)
      IN /\ (x >= 0 => s >= 0) /\ (x < 0 => s <= 0)
         /\ (x >= 0 => (s * FineOne <= x * 32767 /\ x * 32767 - s * FineOne < FineOne))
         /\ (x < 0 => (x * 32768 <= s * FineOne /\ s * FineOne - x * 32768 < FineOne))

\* C12's case: the conversion was applied to the sample 2/65535, which lies
\* between 1/32768 and 1/32767 and is stored as 0.
C12_Witness ==
    /\ Converted
    /\ fnArg.x = 2
    /\ fnArg.x * 32768 > FineOne
    /\ fnResult.intSample = 0

\* The file size of a one-second stereo buffer at 44.1 kHz has been computed.
OneSecondStereoSized ==
    /\ fnResult.fn = "exportMaster.size"
    /\ fnArg.buffer = BufferShape(2, 10, 44100)

\* C13 as stated: the one-second, 44.1 kHz, stereo export is a 44-byte
\* header plus 88200 * 4 bytes of data, 352844 bytes in total.
C13_OneSecondFile352844 ==
    OneSecondStereoSized =>
      /\ fnResult.dataSize = 88200 * 4
      /\ fnResult.fileSize = 352844
      /\ fnResult.fileSize - fnResult.dataSize = 44

\* C13 amended: the one-second, 44.1 kHz, stereo export has 44100 frames
\* of 4 bytes: a 44-byte header plus 44100 * 4 = 176400 bytes of data,
\* 176444 bytes in total.
C13_OneSecondFile176444 ==
    OneSecondStereoSized =>
      /\ fnArg.buffer.length = 44100
      /\ fnResult.dataSize = 44100 * 4
      /\ fnResult.fileSize = 176444
      /\ fnResult.fileSize - fnResult.dataSize = 44

\* C13's case: the size of that export has been computed.
C13_Witness ==
    /\ OneSecondStereoSized
    /\ fnArg.buffer.sampleRate = 44100
    /\ fnArg.buffer.numberOfChannels = 2
    /\ fnResult.fileSize > 44

\* C14: exportMaster renders into a buffer with the input buffer's channel
\* count, frame count and sample rate, for mono as for stereo input (the
\* encoded header carries the same channel count and rate), and the input
\* buffer is, after the export, what it was at the call.
C14_SameShapeInputUntouched ==
    /\ epc # "idle" => expBuffer = expInput
    /\ Exported =>
          /\ rendered.numberOfChannels = expInput.numberOfChannels
          /\ rendered.length = expInput.length
          /\ rendered.sampleRate = expInput.sampleRate
          /\ DOMAIN rendered.data = 1..expInput.numberOfChannels
          /\ \A c \in DOMAIN rendered.data : DOMAIN rendered.data[c] = 1..expInput.length
    /\ epc \in {"writing", "done"} =>
          /\ RdU16(view, 22) = expInput.numberOfChannels
          /\ RdU32(view, 24) = expInput.sampleRate

\* C14's case: a mono buffer of two frames at 48 kHz was exported and the
\* render differs from the input.
C14_Witness ==
    /\ epc = "done"
    /\ expInput.numberOfChannels = 1
    /\ expInput.length = 2
    /\ expInput.sampleRate = 48000
    /\ rendered.data # expInput.data
    /\ expBuffer.data = InputBuffer(1, 2, 48000).data

\* C15: with monoToggle false, updateSettings targets midGain 1 and
\* sideGain w/100, and the stereo stage turns a frame (L, R) into
\* L' = M + sideGain*S, R' = M - sideGain*S with M = (L+R)/2, S = (L-R)/2
\* (both sides multiplied by 2000); so width 100 gives L' = L, R' = R and
\* width 0 gives L' = R' = M.
C15_MidSideWidth ==
    /\ \A s \in StereoSettings :
          ~s.monoToggle =>
            LET n == updateSettingsNodes(nodes, s) IN
            /\ n.midGainNode.gain.target = 1000
            /\ n.sideGainNode.gain.target = s.stereoWidth \div 100
    /\ (frameOut # NoFrame /\ frameOut.midGain = 1000) =>
          LET L == frameIn.L
              R == frameIn.R
              sideGain == frameOut.sideGain
          IN /\ 2000 * frameOut.L = 1000 * (L + R) + sideGain * (L - R)
             /\ 2000 * frameOut.R = 1000 * (L + R) - sideGain * (L - R)
             /\ sideGain = 1000 => (frameOut.L = L /\ frameOut.R = R)
             /\ sideGain = 0 => (2 * frameOut.L = L + R /\ 2 * frameOut.R = L + R)

\* C16: with monoToggle true, updateSettings targets midGain 0.5 and
\* sideGain 0.5 whatever stereoWidth is, and a frame pulled through the
\* stage with those gains leaves with identical left and right samples.
C16_MonoToggle ==
    /\ \A s \in StereoSettings :
          s.monoToggle =>
            LET n == updateSettingsNodes(nodes, s) IN
            /\ n.midGainNode.gain.target = 500
            /\ n.sideGainNode.gain.target = 500
    /\ (frameOut # NoFrame /\ frameOut.midGain = 500 /\ frameOut.sideGain = 500) =>
          frameOut.L = frameOut.R

\* C16's case: after an update with the mono switch on, a frame whose two
\* channels differ was pulled through the stage.
C16_Witness ==
    /\ lastOp = "updateSettings"
    /\ nodes.midGainNode.gain.target = 500
    /\ nodes.sideGainNode.gain.target = 500
    /\ frameOut # NoFrame
    /\ frameOut.midGain = 500
    /\ frameOut.sideGain = 500
    /\ frameIn.L = 5000
    /\ frameIn.R = -5000
    /\ frameOut.L = frameOut.R

\* C17: makeWarmthCurve(0) is the identity: every table entry equals the
\* input value x it is computed from, and the saturator returns each input
\* sample unchanged.
C17_WarmthZeroIdentity ==
    (fnResult.fn = "makeWarmthCurve" /\ fnArg.amount = 0) =>
      /\ fnResult.entry = fnResult.x
      /\ fnResult.hostOut = fnResult.hostIn

\* The limiter of an offline graph: its ninth stage.
graphLimiter(g) == g[9]

\* C18: the limiterThreshold setting is the limiter's ceiling: for every
\* settings record s, the live limiter's threshold after updateSettings(s)
\* is s.limiterThreshold, and the limiter of the graph exportMaster builds
\* for s has threshold s.limiterThreshold.
C18_LimiterThresholdIsCeiling ==
    /\ \A s \in SettingsSet :
          updateSettingsNodes(nodes, s).limiter.threshold.target = s.limiterThreshold
    /\ epc # "idle" =>
          /\ graphLimiter(expGraph).kind = "dynamics"
          /\ graphLimiter(expGraph).threshold.value = expSettings.limiterThreshold


\* The fields of the settings schema.
SchemaFields == DOMAIN DEFAULT_SETTINGS

\* The object a merge produced and what it was merged from: after an AI
\* revive resolved, the new settings, the settings the handler held and the
\* result; while the batch export renders a track with a profile, the
\* settings passed to exportMaster, the settings the loop holds and the
\* profile.
Merges ==
    (IF appOp = "handleAiRevive.resolved"
     THEN {[merged |-> appSettings, base |-> reviveSettings,
            partial |-> findTrack(tracks, aiCall.track).aiProfile]}
     ELSE {})
    \cup
    {[merged |-> job.settings, base |-> batch.settings,
      partial |-> batch.tracks[batch.i].aiProfile] :
        job \in {j \in jobs : j.by = "batch" /\ batch.tracks[batch.i].aiProfile # NoProfile}}

\* C19: whenever AI parameters are applied (AI revive, batch export), the
\* resulting settings record has every schema field defined, and every
\* field absent from the partial object holds its system-wide default value.
C19_MergedOntoDefaults ==
    \A m \in Merges :
        /\ SchemaFields \subseteq DOMAIN m.merged
        /\ \A f \in SchemaFields \ (DOMAIN m.partial \cup {"isAiMode"}) :
              m.merged[f] = DEFAULT_SETTINGS[f]

\* C19 (amended): whenever AI parameters are applied (AI revive, batch
\* export), the partial object is not used standalone: the resulting record
\* has every schema field defined, every field of the partial object holds
\* the partial object's value, and every field absent from it holds the
\* value of the settings it was merged onto -- the settings handleAiRevive
\* held when it was called, the current settings for the batch export --
\* which is the default only while nothing has changed that field.
C19_MergedOntoSettings ==
    \A m \in Merges :
        /\ SchemaFields \subseteq DOMAIN m.merged
        /\ SchemaFields \subseteq DOMAIN m.base
        /\ \A f \in DOMAIN m.partial : m.merged[f] = m.partial[f]
        /\ \A f \in SchemaFields \ (DOMAIN m.partial \cup {"isAiMode"}) :
              m.merged[f] = m.base[f]

\* An AI revive resolved with the fallback profile over settings whose
\* master gain the panel had raised: the merged record keeps +6 dB, which
\* the partial object does not carry and which is not the default.
C19_Witness ==
    /\ appOp = "handleAiRevive.resolved"
    /\ activeTrack.aiProfile = AiFallback
    /\ reviveSettings.masterGain = 6000
    /\ appSettings.masterGain = 6000
    /\ appSettings.hissSuppression = AiFallback.hissSuppression
    /\ "clickSensitivity" \notin DOMAIN activeTrack.aiProfile

\* The documented range of each numeric field, in thousandths.
Within(v, lo, hi) == lo <= v /\ v <= hi
InDocumentedRanges(s) ==
    /\ \A f \in {"hissSuppression", "crackleSuppression", "clickSensitivity",
                 "clickIntensity", "transientRecovery", "spectralSynth", "deReverb",
                 "warmth"} : Within(s[f], 0, 100000)
    /\ Within(s.humFrequency, 45000, 75000)
    /\ Within(s.humQ, 5000, 50000)
    /\ \A f \in {"bassBoost", "midGain", "airGain"} : Within(s[f], -10000, 10000)
    /\ Within(s.stereoWidth, 0, 200000)
    /\ Within(s.masterGain, -20000, 6000)
    /\ Within(s.limiterThreshold, -20000, 0)

\* C20: out-of-range values are clamped by the settings-merge step: after
\* merging any suggestion-service result, every numeric field of the
\* settings passed to updateSettings or exportMaster lies inside its
\* documented range, and so do the parameters updateSettings sets from them.
C20_MergedSettingsInRange ==
    /\ appOp = "handleAiRevive.resolved" =>
          /\ InDocumentedRanges(appSettings)
          /\ Within(nodes.bassFilter.gain.target, -10000, 10000)
          /\ Within(nodes.airFilter.gain.target, -10000, 10000)
          /\ Within(nodes.sideGainNode.gain.target, 0, 2000)
    /\ \A job \in jobs :
          (job.by = "batch" /\ batch.tracks[batch.i].aiProfile # NoProfile) =>
              InDocumentedRanges(job.settings)

\* A suggestion call that failed: the request was rejected, the status
\* was not OK, the text was empty or the text was not JSON.
CallFailed(call) ==
    \/ call.kind \in {"rejected", "notOk"}
    \/ call.kind = "ok" /\ call.text \notin {"{response}", "{wide}"}

C22_AnalyzingEventuallyIdle ==
    \A id \in 1..MaxTracks :
        (findTrack(tracks, id).status = "analyzing") ~> (findTrack(tracks, id).status = "idle")

\* C23: when decoding a selected track's audio fails, the failure is
\* surfaced and the track is marked failed: every listed track whose
\* loadAudio call has rejected has status 'error' (it is not left in
\* 'processing'), and no further loadAudio call is started for it.
C23_DecodeFailureMarked ==
    /\ \A id \in decodeFailed :
          findTrack(tracks, id) # NoTrack => findTrack(tracks, id).status = "error"
    /\ \A load \in loads : ~load.retry

\* C24: at most one render job runs against the engine at any time: there
\* is never a state with two exportMaster calls in progress.
C24_OneRenderJob ==
    Cardinality(jobs) <= 1

\* C25: when rendering or encoding fails during an export, the export is
\* aborted: the failed exportMaster call has triggered no download and the
\* handler's exporting indicator is false again.
C25_FailedExportAborted ==
    /\ appOp = "handleExport.failed" =>
          /\ ~exporting
          /\ \A d \in downloads : d.n # lastJob.n
    /\ (appOp = "handleExportAll.failed" /\ ~lastJob.ok /\ lastJob.by = "batch") =>
          /\ ~batchExporting
          /\ \A d \in downloads : d.n # lastJob.n

\* An export has just failed after an earlier one was downloaded.
C25_Witness ==
    /\ appOp \in {"handleExport.failed", "handleExportAll.failed"}
    /\ ~lastJob.ok
    /\ downloads # {}

C27_FirstTrackEventuallyLoaded ==
    (tracks # <<>> /\ activeTrackId = tracks[1].id /\ tracks[1].decodable)
        ~> (tracks # <<>> /\ tracks[1].buffer /\ tracks[1].status = "idle")

\* C28: no update is lost between manual edits and AI revive: when the
\* analysis completes, every settings field that is not part of the AI
\* result (nor isAiMode) keeps the value it had just before, in the UI
\* settings, and the engine is given exactly those settings.
C28_NoLostUpdate ==
    [][(aiCall.state = "settled" /\ aiCall'.state = "applied") =>
          LET aiParams == analyzeTrackWithAI(aiCall)
              latest == [spread(appSettings, aiParams) EXCEPT !.isAiMode = TRUE] IN
          /\ \A f \in (DOMAIN appSettings \ DOMAIN aiParams) \ {"isAiMode"} :
                appSettings'[f] = appSettings[f]
          /\ nodes' = settingsEffect(updateSettingsNodes(nodes, latest), latest, "wet")]_vars

\* C29: an AI analysis result is merged into the live settings only if the
\* analysed track is the active track when the analysis completes: when
\* another track is active, or the analysed track has been removed, the
\* completion leaves the live settings unchanged.
C29_MergedOnlyIfActive ==
    [][(/\ aiCall.state = "settled"
        /\ aiCall'.state = "applied"
        /\ \/ aiCall.track # activeTrackId
           \/ findTrack(tracks, aiCall.track) = NoTrack) =>
          appSettings' = appSettings]_vars

\* C30: playback can always be stopped from the UI: in every state in which
\* the engine has a started source, pressing the play/pause control stops
\* that source and sets isPlaying to false.
C30_PlaybackCanBeStopped ==
    (source # 0 /\ srcState[source] = "playing") =>
        LET r == togglePlayback(FALSE) IN
        /\ r.ran = "stop"
        /\ r.srcState[source] # "playing"
        /\ ~r.isPlaying

====
